---- MODULE Spec2Model ----
(***************************************************************************)
(* ChordLab control-surface layer (minilab-ui): the WebMIDI message        *)
(* decoder and frame senders (hooks/useWebMIDI.ts), the EncoderTracker     *)
(* (midi/encoders.ts), the binding store (midi/mapping.ts), the parameter  *)
(* contracts (paramMapping.ts) and the event router of App.tsx.            *)
(*                                                                         *)
(* Normalised parameter values (floats in [0,1] in the source) are held as *)
(* integers in 0..ONE, ONE = 381000 = 3 * 1000 * 127, so that every stop   *)
(* (n/3, n/4), every band midpoint (n/6, n/8), both hysteresis margins     *)
(* (0.06, 0.05), the slider step (1/1000), the encoder step (0.01) and     *)
(* every v/127 is an exact integer.                                        *)
(***************************************************************************)
EXTENDS Integers, Sequences, FiniteSets, TLC

(***************************************************************************)
(* Bounds of the model.                                                    *)
(***************************************************************************)
MaxProcess == 7         \* EncoderTracker.process calls explored in SpecTracker
MaxOverrideOps == 2     \* setOverride / clearOverride calls explored
MaxOther == 1           \* process calls on the second controller
MaxMutations == 2       \* binding-store calls and reloads explored in SpecStore
NumPads == 2            \* pads modelled (pad:0 .. pad:NumPads-1)

(***************************************************************************)
(* midi/encoders.ts                                                        *)
(***************************************************************************)
MAX_SAMPLES == 6

Modes == {"absolute", "twos-complement", "sign-magnitude", "one-step"}
NoMode == "undefined"      \* state.mode / overrides[c] === undefined
NoValue == -1              \* state.lastValue === undefined

\* value & 0x40 and value & 0x3f for a 7-bit value
Bit6(v) == (v \div 64) % 2
Low6_All(v) == v
Low6(v) == v % 64

SeqMax(s) == CHOOSE m \in {s[i] : i \in DOMAIN s} : \A i \in DOMAIN s : s[i] <= m
SeqMin(s) == CHOOSE m \in {s[i] : i \in DOMAIN s} : \A i \in DOMAIN s : s[i] >= m

withinRange(values, min, max) == \A value \in values : value >= min /\ value <= max

inferMode(samples) ==
    LET unique == {samples[i] : i \in DOMAIN samples}
        hasPositive == \E value \in unique : Bit6(value) = 0 /\ value # 0
        hasNegative == \E value \in unique : Bit6(value) = 1 /\ value # 64
    IN  IF Len(samples) = 0 THEN "absolute"
        ELSE IF \A value \in unique : value = 0 \/ value = 1 \/ value = 127
             THEN "one-step"
        ELSE IF withinRange(unique, 60, 68) THEN "twos-complement"
        ELSE IF /\ hasPositive
                /\ hasNegative
                /\ \A value \in unique : value = 64 \/ value = 0 \/ Low6(value) <= 16
             THEN "sign-magnitude"
        ELSE IF SeqMax(samples) - SeqMin(samples) > 20 \/ Cardinality(unique) > 10
             THEN "absolute"
        ELSE "absolute"

\* encoders.ts:75-76, the difference is brought back into -64..64
wrapDelta_None(delta) == delta
wrapDelta(delta) ==
    LET d1 == IF delta > 64 THEN delta - 128 ELSE delta
    IN  IF d1 < -64 THEN d1 + 128 ELSE d1

\* encoders.ts:80, the raw value read as a signed 7-bit number
signed7_Unsigned(value) == value
signed7(value) == IF value >= 64 THEN value - 128 ELSE value

deltaForMode(mode, value, lastValue) ==
    CASE mode = "absolute" ->
           IF lastValue = NoValue THEN [delta |-> 0, nextValue |-> value]
           ELSE [delta |-> wrapDelta(value - lastValue), nextValue |-> value]
      [] mode = "twos-complement" ->
           [delta |-> signed7(value), nextValue |-> value]
      [] mode = "sign-magnitude" ->
           IF value = 64 THEN [delta |-> 0, nextValue |-> value]
           ELSE [delta |-> (IF Bit6(value) = 1 THEN -1 ELSE 1) * Low6(value),
                 nextValue |-> value]
      [] mode = "one-step" ->
           IF value = 0 THEN [delta |-> 0, nextValue |-> value]
           ELSE IF value = 127 THEN [delta |-> -1, nextValue |-> value]
           ELSE [delta |-> 1, nextValue |-> value]
      [] OTHER -> [delta |-> 0, nextValue |-> value]

\* states.get(controller) ?? { samples: [] }
FreshEncoderState == [samples |-> <<>>, mode |-> NoMode, lastValue |-> NoValue]

\* encoders.ts:118, the window is full and the mode is committed
windowFull_Never(samples) == Len(samples) > MAX_SAMPLES
windowFull(samples) == Len(samples) >= MAX_SAMPLES

\* encoders.ts:116, a sample is pushed only without an override
shouldPush_Always(override, samples) == Len(samples) < MAX_SAMPLES
shouldPush(override, samples) == override = NoMode /\ Len(samples) < MAX_SAMPLES

process(st, override, controller, value) ==
    LET push == shouldPush(override, st.samples)
        samples1 == IF push THEN Append(st.samples, value) ELSE st.samples
        mode1 == IF push /\ windowFull(samples1) THEN inferMode(samples1) ELSE st.mode
        mode == IF override # NoMode THEN override
                ELSE IF mode1 # NoMode THEN mode1
                ELSE inferMode(Append(samples1, value))
        d == deltaForMode(mode, value, st.lastValue)
    IN  [state |-> [samples |-> samples1, mode |-> mode, lastValue |-> d.nextValue],
         result |-> [controller |-> controller, mode |-> mode,
                     delta |-> d.delta, raw |-> value]]

(***************************************************************************)
(* hooks/useWebMIDI.ts: decoder and frame builders                         *)
(***************************************************************************)
\* "no event" (normalizeMessage returns null)
NullEvent == [type |-> "null", channel |-> 0, num |-> 0, value |-> 0]

\* A NormalizedMidiEvent; num is the note or the controller, value the
\* velocity or the controller value.  The timestamp is passed through
\* unchanged by the decoder and read by nothing; it is not modelled.
MidiEvent(type, channel, num, value) ==
    [type |-> type, channel |-> channel, num |-> num, value |-> value]

\* readData(count): the next `count` bytes masked to 7 bits, or <<>> standing
\* for null when the frame is too short.
\* useWebMIDI.ts:89, value & 0x7f
mask7_None(value) == value
mask7(value) == value % 128

readData_Padded(data, dataIndex, count) ==
    [i \in 1..count |->
        IF dataIndex + i - 1 > Len(data) THEN 0 ELSE mask7(data[dataIndex + i - 1])]
readData(data, dataIndex, count) ==
    IF dataIndex + count - 1 > Len(data) THEN <<>>
    ELSE [i \in 1..count |-> mask7(data[dataIndex + i - 1])]

\* useWebMIDI.ts:79, the channel is the low nibble of the status byte
statusChannel_Shifted(status) == (status \div 16) % 16
statusChannel(status) == status % 16

\* normalizeMessage: data is the frame as a sequence of bytes 0..255
\* (1-indexed here, so dataIndex starts at 2).
normalizeMessage(data) ==
    IF Len(data) = 0 THEN NullEvent
    ELSE LET status == data[1]
             channel == statusChannel(status)
             messageType == status - (status % 16)
             values == readData(data, 2, 2)
         IN  IF status < 128 THEN NullEvent
             ELSE IF status >= 240 THEN NullEvent
             ELSE CASE messageType = 128 ->
                         IF values = <<>> THEN NullEvent
                         ELSE MidiEvent("noteoff", channel, values[1], values[2])
                    [] messageType = 144 ->
                         IF values = <<>> THEN NullEvent
                         ELSE IF values[2] = 0
                              THEN MidiEvent("noteoff", channel, values[1], 0)
                              ELSE MidiEvent("noteon", channel, values[1], values[2])
                    [] messageType = 176 ->
                         IF values = <<>> THEN NullEvent
                         ELSE MidiEvent("cc", channel, values[1], values[2])
                    [] OTHER -> NullEvent

Clamp(lo, hi, x) == IF x < lo THEN lo ELSE IF x > hi THEN hi ELSE x

\* Math.round of a value given as twice the value (so that halves are
\* representable): rounds half up.
RoundHalves(x2) == (x2 + 1) \div 2

\* sendRaw: every byte of the frame, the status byte included, is clamped to
\* [0,127] before it is sent.
sendRaw(bytes) == [i \in DOMAIN bytes |-> Clamp(0, 127, bytes[i])]

\* A frame handed to output.send, tagged with the sender that built it.
Frame(via, bytes) == [via |-> via, bytes |-> bytes]

\* sendCC / sendNoteOn / sendNoteOff with one connected output; value2 and
\* velocity2 are twice the value or velocity passed.
sendCC(controller, value2, channel) ==
    Frame("sendCC",
          sendRaw(<<176 + (channel % 16), Clamp(0, 127, controller),
                    Clamp(0, 127, RoundHalves(value2))>>))

sendNoteOn(note, velocity2, channel) ==
    Frame("sendNoteOn",
          sendRaw(<<144 + (channel % 16), Clamp(0, 127, note),
                    Clamp(0, 127, RoundHalves(velocity2))>>))

sendNoteOff(note, velocity2, channel) ==
    Frame("sendNoteOff",
          sendRaw(<<128 + (channel % 16), Clamp(0, 127, note),
                    Clamp(0, 127, RoundHalves(velocity2))>>))

PAD_SYSEX_HEADER == <<0, 32, 107, 127, 66, 2, 2, 22>>

\* padSysex: new Uint8Array([...]) stores each element modulo 256
padSysex(pad, r, g, b) ==
    LET raw == <<240>> \o PAD_SYSEX_HEADER \o <<pad, r, g, b, 247>>
    IN  Frame("sendPadColor", [i \in DOMAIN raw |-> raw[i] % 256])

\* A string is the sequence of its UTF-16 code units (no surrogate pairs).
\* encodeLine: text.slice(0, 16), each charCodeAt(0) & 0x7f, then 0x20 up to
\* 16 bytes.
Spaces(n) == [i \in 1..n |-> 32]
encodeLine_PadZero(text) ==
    LET truncated == SubSeq(text, 1, IF Len(text) < 16 THEN Len(text) ELSE 16)
        ascii == [i \in DOMAIN truncated |-> truncated[i] % 128]
    IN  ascii \o [i \in 1..(16 - Len(ascii)) |-> 0]
encodeLine(text) ==
    LET truncated == SubSeq(text, 1, IF Len(text) < 16 THEN Len(text) ELSE 16)
        ascii == [i \in DOMAIN truncated |-> truncated[i] % 128]
        padding == Spaces(16 - Len(ascii))
    IN  ascii \o padding

OLED_SYSEX_HEADER == <<240, 0, 32, 107, 127, 66, 4, 2, 96, 1>>

\* oledSysex: new Uint8Array([...])
oledSysex(line1, line2) ==
    LET raw == OLED_SYSEX_HEADER \o encodeLine(line1) \o encodeLine(line2) \o <<247>>
    IN  Frame("sendOled", [i \in DOMAIN raw |-> raw[i] % 256])

(***************************************************************************)
(* midi/mapping.ts: the binding store                                      *)
(***************************************************************************)
\* SLIDER_KEYS (App.tsx) / ParamKey, in declaration order
ParamKeys == <<"complexity", "spread", "octaveDoubling", "tension">>
ParamKeySet == {ParamKeys[i] : i \in DOMAIN ParamKeys}

\* A LogicalControl: n is the pad index, the position of the slider's key in
\* ParamKeys, or the encoder's controller number.
Control(kind, n) == [kind |-> kind, n |-> n]
PadIds == {Control("pad", i) : i \in 0..(NumPads - 1)}
SliderIds == {Control("slider", i) : i \in DOMAIN ParamKeys}
EncoderNumbers == {74, 75}
EncoderIds == {Control("encoder", c) : c \in EncoderNumbers}
ControlIds == PadIds \cup SliderIds \cup EncoderIds

\* A MidiBinding.  num is the note or the controller.  target is a ParamKey,
\* Absent (no target key) or Undef (a target key holding undefined, as
\* setEncoderTarget(c) writes it).  Nothing in the program writes or reads
\* encoderMode, which is not modelled.  Keys are always written in the order
\* type, note|controller, channel, target, so that two bindings have the same
\* JSON text exactly when they have the same fields.
Absent == "absent"
Undef == "undefined"
NoteBinding(note, channel) ==
    [type |-> "note", num |-> note, channel |-> channel, target |-> Absent]
CcBinding(controller, channel, target) ==
    [type |-> "cc", num |-> controller, channel |-> channel, target |-> target]
\* state[id] === undefined
NoBinding == [type |-> "none", num |-> -1, channel |-> -1, target |-> Absent]

hasTarget(b) == b.target \notin {Absent, Undef}

DEFAULT_SLIDER_CC == <<82, 83, 85, 17>>

DEFAULT_MAPPING ==
    [id \in ControlIds |->
        CASE id.kind = "pad" -> NoteBinding(36 + id.n, 8)
          [] id.kind = "slider" -> CcBinding(DEFAULT_SLIDER_CC[id.n], 0, ParamKeys[id.n])
          [] OTHER -> NoBinding]

\* JSON.stringify followed by JSON.parse of one binding: a key holding
\* undefined is dropped.
Json(b) == IF b.target = Undef THEN [b EXCEPT !.target = Absent] ELSE b

\* mapping.ts:92, an entry identical to its default is not written
sameAsDefault_Never(id, value) == FALSE
sameAsDefault(id, value) ==
    DEFAULT_MAPPING[id] # NoBinding /\ Json(DEFAULT_MAPPING[id]) = Json(value)

\* persistMapping: the record written to localStorage for table st, given the
\* record `old` already there; a failed write leaves the old record.
persistMapping(st, old, ok) ==
    IF ~ok THEN old
    ELSE [id \in ControlIds |->
            IF sameAsDefault(id, st[id]) THEN NoBinding ELSE Json(st[id])]

\* loadMapping: { ...DEFAULT_MAPPING, ...parsed }
loadMapping_DefaultsOnly(rec) == DEFAULT_MAPPING
loadMapping(rec) ==
    [id \in ControlIds |-> IF rec[id] # NoBinding THEN rec[id] ELSE DEFAULT_MAPPING[id]]

\* mapping.ts:124-129, the target of the previous binding is kept
mergeBinding_NoPreserve(previous, binding) == binding
mergeBinding(previous, binding) ==
    IF /\ previous # NoBinding
       /\ previous.type = "cc"
       /\ binding.type = "cc"
       /\ hasTarget(previous)
       /\ ~hasTarget(binding)
    THEN [binding EXCEPT !.target = previous.target]
    ELSE binding

\* The store as one record: the table, the persisted record and the number
\* of notify() calls.
setBinding(m, id, binding, ok) ==
    LET st == [m.state EXCEPT ![id] = mergeBinding(m.state[id], binding)]
    IN  [state |-> st, stored |-> persistMapping(st, m.stored, ok),
         notified |-> m.notified + 1]

resetMapping_KeepExtras(m, ok) ==
    LET st == [id \in ControlIds |->
                  IF DEFAULT_MAPPING[id] # NoBinding THEN DEFAULT_MAPPING[id]
                  ELSE m.state[id]]
    IN  [state |-> st, stored |-> persistMapping(st, m.stored, ok),
         notified |-> m.notified + 1]
resetMapping(m, ok) ==
    [state |-> DEFAULT_MAPPING, stored |-> persistMapping(DEFAULT_MAPPING, m.stored, ok),
     notified |-> m.notified + 1]

resetBinding(m, id, ok) ==
    LET st == [m.state EXCEPT ![id] = DEFAULT_MAPPING[id]]
    IN  [state |-> st, stored |-> persistMapping(st, m.stored, ok),
         notified |-> m.notified + 1]

setEncoderTarget_Create(m, controller, target, ok) ==
    LET id == Control("encoder", controller)
        st == [m.state EXCEPT ![id] = CcBinding(controller, 0, target)]
    IN  [state |-> st, stored |-> persistMapping(st, m.stored, ok),
         notified |-> m.notified + 1]
setEncoderTarget(m, controller, target, ok) ==
    LET id == Control("encoder", controller)
        binding == m.state[id]
        st == [m.state EXCEPT ![id].target = target]
    IN  IF binding = NoBinding \/ binding.type # "cc" THEN m
        ELSE [state |-> st, stored |-> persistMapping(st, m.stored, ok),
              notified |-> m.notified + 1]

captureBindingFromEvent_NoteOnOnly(event) ==
    IF event.type = "noteon" THEN NoteBinding(event.num, event.channel)
    ELSE IF event.type = "cc" THEN CcBinding(event.num, event.channel, Absent)
    ELSE NoBinding
captureBindingFromEvent(event) ==
    IF event.type \in {"noteon", "noteoff"} THEN NoteBinding(event.num, event.channel)
    ELSE IF event.type = "cc" THEN CcBinding(event.num, event.channel, Absent)
    ELSE NoBinding

(***************************************************************************)
(* paramMapping.ts                                                         *)
(***************************************************************************)
\* The normalised value 1.0
ONE == 3 * 1000 * 127

clamp01(value) == Clamp(0, ONE, value)

\* Math.round(num / den) for num >= 0, den > 0
RoundDiv(num, den) == (2 * num + den) \div (2 * den)

complexityStops == <<0, ONE \div 3, (2 * ONE) \div 3, ONE>>
tensionStops == <<0, ONE \div 3, (2 * ONE) \div 3, ONE>>
octaveStops == <<0, ONE \div 4, ONE \div 2, (3 * ONE) \div 4, ONE>>

\* discreteSemantics[key]: stops and hysteresis (0.06, 0.05); no entry for spread
NoDefinition == [stops |-> <<>>, hysteresis |-> 0]
discreteSemantics(key) ==
    CASE key = "complexity" -> [stops |-> complexityStops, hysteresis |-> (6 * ONE) \div 100]
      [] key = "octaveDoubling" -> [stops |-> octaveStops, hysteresis |-> (5 * ONE) \div 100]
      [] key = "tension" -> [stops |-> tensionStops, hysteresis |-> (6 * ONE) \div 100]
      [] OTHER -> NoDefinition

\* stops.indexOf(value), 1-based; 0 when absent (-1 in the source)
indexOf(stops, value) ==
    IF \E i \in DOMAIN stops : stops[i] = value
    THEN CHOOSE i \in DOMAIN stops : stops[i] = value /\ \A j \in 1..(i - 1) : stops[j] # value
    ELSE 0

\* getBounds(index), index 1-based
getBounds(stops, index) ==
    [lower |-> IF index = 1 THEN 0 ELSE (stops[index - 1] + stops[index]) \div 2,
     upper |-> IF index = Len(stops) THEN ONE ELSE (stops[index] + stops[index + 1]) \div 2]

inBand(stops, hysteresis, index, clamped) ==
    /\ clamped >= getBounds(stops, index).lower - hysteresis
    /\ clamped <= getBounds(stops, index).upper + hysteresis

discreteIndex_Nearest(value, previous, definition) ==
    LET stops == definition.stops
        hits == {i \in DOMAIN stops :
                    inBand(stops, definition.hysteresis, i, clamp01(value))}
    IN  stops[CHOOSE i \in hits : \A j \in hits : i <= j]
discreteIndex(value, previous, definition) ==
    LET stops == definition.stops
        hysteresis == definition.hysteresis
        clamped == clamp01(value)
        prevIndex == indexOf(stops, previous)
        currentIndex == IF prevIndex >= 1 THEN prevIndex ELSE 1
        hits == {i \in DOMAIN stops : inBand(stops, hysteresis, i, clamped)}
    IN  IF inBand(stops, hysteresis, currentIndex, clamped) THEN stops[currentIndex]
        ELSE IF hits # {}
             THEN stops[CHOOSE i \in hits : \A j \in hits : i <= j]
        ELSE stops[currentIndex]

\* discreteToCC(stops)(value)
discreteToCC(stops, value) ==
    LET index == indexOf(stops, value)
    IN  IF index = 0 THEN RoundDiv(value * 127, ONE)
        ELSE IF Len(stops) = 0 THEN 0
        ELSE IF Len(stops) = 1 THEN (IF stops[1] = 0 THEN 0 ELSE 127)
        ELSE RoundDiv((index - 1) * 127, Len(stops) - 1)

\* ccToDiscrete(stops)(value), value a 7-bit controller value
ccToDiscrete_Floor(stops, value) ==
    IF Len(stops) = 0 THEN 0
    ELSE IF Len(stops) = 1 THEN stops[1]
    ELSE stops[(clamp01(value * (ONE \div 127)) * (Len(stops) - 1)) \div ONE + 1]
ccToDiscrete(stops, value) ==
    IF Len(stops) = 0 THEN 0
    ELSE IF Len(stops) = 1 THEN stops[1]
    ELSE stops[RoundDiv(clamp01(value * (ONE \div 127)) * (Len(stops) - 1), ONE) + 1]

\* paramSemantics[key].stops (<<>> for spread, which has none)
semanticStops(key) ==
    CASE key = "complexity" -> complexityStops
      [] key = "tension" -> tensionStops
      [] key = "octaveDoubling" -> octaveStops
      [] OTHER -> <<>>

\* paramSemantics[key].toNormalized
toNormalized(key, cc) ==
    IF key = "spread" THEN clamp01(cc * (ONE \div 127))
    ELSE ccToDiscrete(semanticStops(key), cc)

\* paramSemantics[key].toCC
toCC(key, normalized) ==
    IF key = "spread" THEN RoundDiv(clamp01(normalized) * 127, ONE)
    ELSE discreteToCC(semanticStops(key), normalized)

applyIncomingValue(key, midiValue, previous) ==
    IF semanticStops(key) = <<>> THEN toNormalized(key, midiValue)
    ELSE IF discreteSemantics(key) = NoDefinition THEN toNormalized(key, midiValue)
    ELSE discreteIndex(toNormalized(key, midiValue), previous, discreteSemantics(key))

paramToCC(key, value) == toCC(key, value)

normalizeUserInput_Unquantized(key, value, previous) == clamp01(value)
normalizeUserInput(key, value, previous) ==
    IF semanticStops(key) # <<>>
    THEN (IF discreteSemantics(key) = NoDefinition THEN clamp01(value)
          ELSE discreteIndex(clamp01(value), previous, discreteSemantics(key)))
    ELSE clamp01(value)

(***************************************************************************)
(* State                                                                   *)
(***************************************************************************)
VARIABLES
    \* EncoderTracker (encoders.ts)
    states,          \* this.states: controller -> EncoderState
    overrides,       \* this.overrides (overridesCache): controller -> mode
    savedOverrides,  \* localStorage['chordlab.encoderModes.v1']
    \* observation of the tracker's callers
    ret,             \* the EncoderDelta returned by the latest process call
    pinned,          \* per controller: setOverride was called on it and
                     \* clearOverride has not been called since
    seen,            \* per controller: the first MAX_SAMPLES raw values processed
                     \* while not pinned, since it was new or last cleared
    nSeen,           \* per controller: the number of those process calls
    \* decoder and senders (useWebMIDI.ts)
    rawIn,           \* the raw frame of the latest midimessage event
    delivered,       \* the event handleMessage passed to its subscribers
    req,             \* arguments of the latest sendCC/sendNoteOn/sendNoteOff call
    sent,            \* frames handed to output.send by the latest operation
    \* binding store (mapping.ts)
    state,           \* the binding table
    stored,          \* localStorage['chordlab.midiMapping.v1']
    notified,        \* number of notify() calls
    \* App.tsx
    learnTarget,     \* the control armed for learn, or NoControl
    activePadIndex,
    padColors,       \* pad number (padValue) -> colour
    params,          \* the parameter store: key -> normalised value
    bucket,          \* hardwareUpdateRef: key -> pending value and frame request
    suppressOutgoing,\* suppressOutgoingRef
    calls,           \* the functions the latest operation called
    \* environment
    storageOk,       \* window.localStorage accepts writes
    storedKind,      \* what reading the stored mapping record gives
    warned,          \* console.warn calls made by the binding store
    op,              \* name of the latest operation
    arg,             \* the control and binding the latest store call was given
    nOps,            \* process calls / store mutations performed (bounded)
    nOvr             \* setOverride and clearOverride calls performed (bounded)

trackerVars == <<states, overrides, savedOverrides, ret, seen, nSeen, pinned>>
ioVars == <<rawIn, delivered, req, sent>>
storeVars == <<state, stored, notified>>
appVars == <<learnTarget, activePadIndex, padColors, params, bucket, suppressOutgoing, calls>>
envVars == <<storageOk, storedKind, warned>>
vars == <<trackerVars, ioVars, storeVars, appVars, envVars, op, arg, nOps, nOvr>>

(***************************************************************************)
(* EncoderTracker operations                                               *)
(***************************************************************************)
\* Controller numbers the tracker is driven with: the encoder under
\* observation and a second one whose traffic is interleaved with it.
Controllers == {74, 75}
\* Every controller number a control-change of the model can carry.
TrackedControllers == Controllers \cup {82, 83}
Primary == CHOOSE c \in Controllers : \A d \in Controllers : c <= d

\* Raw values fed to process on the primary controller ([1] is one-step,
\* [65] twos-complement, [1, 65] sign-magnitude) ...
RawValues == {1, 65}

\* ... on the second controller ...
OtherRawValues == {100}

\* ... and the three sequences of the specification's scenarios, which a
\* controller may follow from its first event on.
Scenarios == { <<1, 1, 127, 1, 127, 1>>,
               <<63, 65, 64, 66, 63, 64>>,
               <<68, 2, 100, 3, 95, 10>> }

IsPrefix(s, t) == Len(s) <= Len(t) /\ \A i \in DOMAIN s : s[i] = t[i]

ProcessInputs(c) ==
    IF c # Primary
    THEN (IF nSeen[c] < MaxOther THEN OtherRawValues ELSE {})
    ELSE
    RawValues \cup
    { sc[nSeen[c] + 1] : sc \in { t \in Scenarios : nSeen[c] < Len(t)
                                                    /\ nSeen[c] = Len(seen[c])
                                                    /\ IsPrefix(seen[c], t) } }

NoDelta == [controller |-> -1, mode |-> NoMode, delta |-> 0, raw |-> -1]

\* The tracker with the observations of its calls, as one record.
Tracker ==
    [states |-> states, overrides |-> overrides, saved |-> savedOverrides,
     ret |-> ret, seen |-> seen, nSeen |-> nSeen, pinned |-> pinned]

SetTracker(t) ==
    /\ states' = t.states
    /\ overrides' = t.overrides
    /\ savedOverrides' = t.saved
    /\ ret' = t.ret
    /\ seen' = t.seen
    /\ nSeen' = t.nSeen
    /\ pinned' = t.pinned

\* saveOverrides: the write is skipped when storage throws
saveOverrides_Skip(t) == t
saveOverrides(t) == IF storageOk THEN [t EXCEPT !.saved = t.overrides] ELSE t

trackerProcess(t, controller, value) ==
    LET r == process(t.states[controller], t.overrides[controller], controller, value)
    IN  [t EXCEPT !.states[controller] = r.state,
                  !.ret = r.result,
                  !.seen[controller] =
                      IF ~t.pinned[controller] /\ Len(@) < MAX_SAMPLES
                      THEN Append(@, value) ELSE @,
                  !.nSeen[controller] = IF t.pinned[controller] THEN @ ELSE @ + 1]

setOverride(t, controller, mode) ==
    LET t1 == saveOverrides([t EXCEPT !.overrides[controller] = mode])
    IN  [t1 EXCEPT !.states[controller].mode = mode,
                   !.pinned[controller] = TRUE]

clearOverride_KeepSamples(t, controller) ==
    LET t1 == saveOverrides([t EXCEPT !.overrides[controller] = NoMode])
    IN  [t1 EXCEPT !.seen[controller] = <<>>,
                   !.nSeen[controller] = 0,
                   !.pinned[controller] = FALSE]
clearOverride(t, controller) ==
    LET t1 == saveOverrides([t EXCEPT !.overrides[controller] = NoMode])
    IN  [t1 EXCEPT !.states[controller].samples = <<>>,
                   !.states[controller].mode = NoMode,
                   !.seen[controller] = <<>>,
                   !.nSeen[controller] = 0,
                   !.pinned[controller] = FALSE]

EmptyRecord == [id \in ControlIds |-> NoBinding]

\* The store on a first run: no stored record, the table is the defaults.
InitStoreVars ==
    /\ stored = EmptyRecord
    /\ state = loadMapping(stored)
    /\ notified = 0

NoControl == Control("none", -1)
NoArg == [id |-> NoControl, binding |-> NoBinding]

\* color-presets: padPalette.highlight for the first pad, muted for the rest
padPalette(name) ==
    CASE name = "highlight" -> [r |-> 50, g |-> 80, b |-> 120]
      [] name = "muted" -> [r |-> 12, g |-> 12, b |-> 12]

\* PAD_MAPPINGS[i].padValue: the pads are numbered from 21
padValue(uiIndex) == 21 + uiIndex
PadValues == {padValue(i) : i \in 0..(NumPads - 1)}

buildDefaultPadColors ==
    [pv \in PadValues |-> padPalette(IF pv = padValue(0) THEN "highlight" ELSE "muted")]

\* paramsStore INITIAL_STATE
INITIAL_STATE ==
    [k \in ParamKeySet |-> IF k = "octaveDoubling" THEN ONE \div 2 ELSE 0]

\* Parameter states a session is in when the events explored arrive: the
\* initial state, and the one after the user has moved complexity to 1/3,
\* spread to 1/2 and tension to 1.
InitialParams ==
    { INITIAL_STATE,
      [k \in ParamKeySet |->
          CASE k = "complexity" -> ONE \div 3
            [] k = "spread" -> ONE \div 2
            [] k = "octaveDoubling" -> ONE \div 2
            [] k = "tension" -> ONE] }

InitAppVars ==
    /\ learnTarget = NoControl
    /\ activePadIndex = 0
    /\ padColors = buildDefaultPadColors
    /\ params = INITIAL_STATE
    /\ bucket = [k \in ParamKeySet |-> [value |-> 0, raf |-> FALSE]]
    /\ suppressOutgoing = FALSE
    /\ calls = {}

\* Storage that works: writes succeed and the stored mapping record, when
\* there is one, is the JSON text of an object.
InitEnv ==
    /\ storageOk = TRUE
    /\ storedKind = "object"
    /\ warned = 0

InitIO ==
    /\ rawIn = <<>>
    /\ delivered = NullEvent
    /\ req = <<>>
    /\ sent = <<>>

\* A new EncoderTracker on a first run: no controller seen, and loadOverrides
\* finds no stored record.
InitTrackerVars ==
    /\ states = [c \in TrackedControllers |-> FreshEncoderState]
    /\ overrides = [c \in TrackedControllers |-> NoMode]
    /\ savedOverrides = overrides
    /\ ret = NoDelta
    /\ seen = [c \in TrackedControllers |-> <<>>]
    /\ nSeen = [c \in TrackedControllers |-> 0]
    /\ pinned = [c \in TrackedControllers |-> overrides[c] # NoMode]

InitTracker ==
    /\ InitTrackerVars
    /\ InitStoreVars
    /\ InitAppVars
    /\ InitIO
    /\ InitEnv
    /\ op = "init"
    /\ arg = NoArg
    /\ nOps = 0
    /\ nOvr = 0

Process ==
    /\ nOps < MaxProcess
    /\ \E c \in Controllers : \E v \in ProcessInputs(c) :
          SetTracker(trackerProcess(Tracker, c, v))
    /\ op' = "process"
    /\ nOps' = nOps + 1
    /\ UNCHANGED <<ioVars, storeVars, appVars, envVars, arg, nOvr>>

SetOverride ==
    /\ nOvr < MaxOverrideOps
    /\ \E c \in Controllers : \E m \in Modes :
          SetTracker(setOverride(Tracker, c, m))
    /\ op' = "setOverride"
    /\ nOvr' = nOvr + 1
    /\ UNCHANGED <<ioVars, storeVars, appVars, envVars, arg, nOps>>

ClearOverride ==
    /\ nOvr < MaxOverrideOps
    /\ \E c \in Controllers : SetTracker(clearOverride(Tracker, c))
    /\ op' = "clearOverride"
    /\ nOvr' = nOvr + 1
    /\ UNCHANGED <<ioVars, storeVars, appVars, envVars, arg, nOps>>

NextTracker == Process \/ SetOverride \/ ClearOverride

SpecTracker == InitTracker /\ [][NextTracker]_vars

(***************************************************************************)
(* Properties of the EncoderTracker (SpecTracker)                          *)
(***************************************************************************)
\* The decision rule of the specification, on the set of observed values,
\* first match wins.
DecisionRule(S) ==
    IF S \subseteq {0, 1, 127} THEN "one-step"
    ELSE IF S \subseteq 60..68 THEN "twos-complement"
    ELSE IF /\ S \cap (1..63) # {}
            /\ S \cap (65..127) # {}
            /\ S \subseteq ((0..16) \cup (64..80))
         THEN "sign-magnitude"
    ELSE "absolute"

Values(s) == {s[i] : i \in DOMAIN s}

\* C2: with no override, from the sixth event on a fresh controller onwards
\* every process call on it returns (and stores) the decision rule's verdict on
\* the first six raw values, whatever the later raw values are; the three
\* sequences of the specification classify as one-step, twos-complement and
\* absolute.
C2_ModeCommittedAtSix ==
    /\ \A c \in Controllers :
          (~pinned[c] /\ nSeen[c] >= MAX_SAMPLES) =>
              /\ Len(seen[c]) = MAX_SAMPLES
              /\ states[c].mode = DecisionRule(Values(seen[c]))
              /\ ret.controller = c => ret.mode = DecisionRule(Values(seen[c]))
    /\ (/\ seen[Primary] = <<1, 1, 127, 1, 127, 1>>
        /\ ~pinned[Primary]) => states[Primary].mode = "one-step"
    /\ (/\ seen[Primary] = <<63, 65, 64, 66, 63, 64>>
        /\ ~pinned[Primary]) => states[Primary].mode = "twos-complement"
    /\ (/\ seen[Primary] = <<68, 2, 100, 3, 95, 10>>
        /\ ~pinned[Primary]) => states[Primary].mode = "absolute"

\* C2 witness: a seventh event after the wide-spread sequence, with a raw
\* value that on its own would classify differently, still returns absolute.
C2_Witness ==
    /\ seen[Primary] = <<68, 2, 100, 3, 95, 10>>
    /\ nSeen[Primary] = MAX_SAMPLES + 1
    /\ ~pinned[Primary]
    /\ ret.controller = Primary
    /\ ret.raw = 1
    /\ ret.mode = "absolute"

\* C3: with no override, the mode returned for the k-th event (1 <= k <= 5) on
\* a controller is the decision rule applied to the first k raw values.
C3_ProvisionalModeUsesSamplesSoFar ==
    \A c \in Controllers :
        (/\ ~pinned[c]
         /\ ret.controller = c
         /\ nSeen[c] >= 1
         /\ nSeen[c] < MAX_SAMPLES) => ret.mode = DecisionRule(Values(seen[c]))

(***************************************************************************)
(* Delta conversion over the whole raw range                               *)
(***************************************************************************)
MaxRaw == 1             \* process calls explored in SpecDelta

\* The 7-bit controller values.
Raw7 == 0..127

\* What happened on the primary controller before the call under study:
\* events processed without an override, then possibly setOverride(m), then
\* possibly one more event.
PreludeSamples == { <<>>, <<1>>, <<63, 65, 64, 66, 63, 64>> }
PreludeLast == { <<>>, <<2>>, <<100>>, <<125>> }
Preludes ==
    [before : PreludeSamples, mode : Modes \cup {NoMode}, after : PreludeLast]

RECURSIVE processAll(_, _, _)
processAll(t, controller, values) ==
    IF values = <<>> THEN t
    ELSE processAll(trackerProcess(t, controller, Head(values)), controller, Tail(values))

FreshTracker ==
    [states |-> [c \in TrackedControllers |-> FreshEncoderState],
     overrides |-> [c \in TrackedControllers |-> NoMode],
     saved |-> [c \in TrackedControllers |-> NoMode],
     ret |-> NoDelta,
     seen |-> [c \in TrackedControllers |-> <<>>],
     nSeen |-> [c \in TrackedControllers |-> 0],
     pinned |-> [c \in TrackedControllers |-> FALSE]]

\* The tracker after a prelude.
AfterPrelude(pre) ==
    LET t1 == processAll(FreshTracker, Primary, pre.before)
        t2 == IF pre.mode = NoMode THEN t1 ELSE setOverride(t1, Primary, pre.mode)
    IN  processAll(t2, Primary, pre.after)

InitDelta ==
    /\ InitEnv
    /\ \E pre \in Preludes :
          /\ states = AfterPrelude(pre).states
          /\ overrides = AfterPrelude(pre).overrides
          /\ savedOverrides = AfterPrelude(pre).saved
          /\ ret = AfterPrelude(pre).ret
          /\ seen = AfterPrelude(pre).seen
          /\ nSeen = AfterPrelude(pre).nSeen
          /\ pinned = AfterPrelude(pre).pinned
    /\ InitStoreVars
    /\ InitAppVars
    /\ InitIO
    /\ op = "init"
    /\ arg = NoArg
    /\ nOps = 0
    /\ nOvr = 0

\* process(Primary, v) for any 7-bit v
RawProcess ==
    /\ nOps < MaxRaw
    /\ \E v \in Raw7 : SetTracker(trackerProcess(Tracker, Primary, v))
    /\ op' = "process"
    /\ nOps' = nOps + 1
    /\ UNCHANGED <<ioVars, storeVars, appVars, envVars, arg, nOvr>>

NextDelta == RawProcess

SpecDelta == InitDelta /\ [][NextDelta]_vars

\* C12: in absolute mode, an event with raw value v on a controller whose
\* previous raw value is p returns v - p, less 128 when v - p > 64 and plus
\* 128 when v - p < -64, and the stored previous value becomes v; with no
\* previous value the delta is 0.  p = 100, v = 103 gives +3 and p = 2,
\* v = 125 gives -5.
C12_AbsoluteDelta ==
    [][ (op' = "process" /\ ret'.mode = "absolute") =>
            LET p == states[Primary].lastValue
                v == ret'.raw
                d == v - p
            IN  /\ states'[Primary].lastValue = v
                /\ p = NoValue => ret'.delta = 0
                /\ p # NoValue =>
                      ret'.delta = IF d > 64 THEN d - 128
                                   ELSE IF d < -64 THEN d + 128 ELSE d
                /\ (p = 100 /\ v = 103) => ret'.delta = 3
                /\ (p = 2 /\ v = 125) => ret'.delta = -5 ]_vars

\* C12 witness: after raw value 2, raw value 125 in absolute mode gave -5.
C12_Witness ==
    /\ op = "process"
    /\ ret.mode = "absolute"
    /\ ret.raw = 125
    /\ ret.delta = -5
    /\ states[Primary].lastValue = 125

\* C13: in a relative mode the delta is a function of the raw value v alone:
\* twos-complement gives v - 128 for v >= 64 and v otherwise (70 gives -58);
\* sign-magnitude gives 0 for v = 64 and otherwise the low six bits of v,
\* negated when bit 0x40 is set; one-step gives 0 for 0, -1 for 127 and +1
\* for 1.
C13_RelativeDelta ==
    op = "process" =>
        LET v == ret.raw
        IN  /\ ret.mode = "twos-complement" =>
                  /\ ret.delta = IF v >= 64 THEN v - 128 ELSE v
                  /\ v = 70 => ret.delta = -58
            /\ ret.mode = "sign-magnitude" =>
                  ret.delta = IF v = 64 THEN 0
                              ELSE IF v > 64 THEN -(v - 64) ELSE v
            /\ ret.mode = "one-step" =>
                  /\ v = 0 => ret.delta = 0
                  /\ v = 127 => ret.delta = -1
                  /\ v = 1 => ret.delta = 1

\* C13 witness: raw value 70 in twos-complement mode gave -58.
C13_Witness ==
    /\ op = "process"
    /\ ret.mode = "twos-complement"
    /\ ret.raw = 70
    /\ ret.delta = -58

\* The conversion of raw value v under mode m, p being the previous raw
\* value (NoValue when there is none), as the specification words it.
ReferenceDelta(m, v, p) ==
    CASE m = "absolute" ->
           IF p = NoValue THEN 0
           ELSE IF v - p > 64 THEN v - p - 128
           ELSE IF v - p < -64 THEN v - p + 128
           ELSE v - p
      [] m = "twos-complement" -> IF v >= 64 THEN v - 128 ELSE v
      [] m = "sign-magnitude" ->
           IF v = 64 THEN 0 ELSE IF v > 64 THEN 64 - v ELSE v
      [] m = "one-step" -> IF v = 0 THEN 0 ELSE IF v = 127 THEN -1 ELSE 1

\* C14: while an override m is in force on a controller, every process call
\* on it returns mode m and the delta of m's conversion, for any raw value
\* and whatever samples or mode were gathered before, and adds no sample to
\* the controller's buffer.
C14_OverrideInForce ==
    [][ (op' = "process" /\ overrides[Primary] # NoMode) =>
            /\ ret'.mode = overrides[Primary]
            /\ ret'.delta = ReferenceDelta(overrides[Primary], ret'.raw,
                                           states[Primary].lastValue)
            /\ states'[Primary].samples = states[Primary].samples ]_vars

\* C14 witness: six samples that classify as twos-complement were gathered,
\* one-step was then pinned, and raw value 127 returned one-step and -1.
C14_Witness ==
    /\ op = "process"
    /\ overrides[Primary] = "one-step"
    /\ states[Primary].samples = <<63, 65, 64, 66, 63, 64>>
    /\ inferMode(states[Primary].samples) = "twos-complement"
    /\ ret.raw = 127
    /\ ret.mode = "one-step"
    /\ ret.delta = -1

(***************************************************************************)
(* Clearing an override and the window that follows                        *)
(***************************************************************************)
\* clearOverride(Primary), after a prelude or after an earlier clear; arg
\* records the controller cleared.
ClearPrimary ==
    /\ nOvr < MaxOverrideOps
    /\ SetTracker(clearOverride(Tracker, Primary))
    /\ arg' = [id |-> Control("encoder", Primary), binding |-> NoBinding]
    /\ op' = "clearOverride"
    /\ nOvr' = nOvr + 1
    /\ UNCHANGED <<ioVars, storeVars, appVars, envVars, nOps>>

\* process(Primary, v) once the controller has been cleared
WindowProcess ==
    /\ arg.id = Control("encoder", Primary)
    /\ nOps < MaxProcess
    /\ \E v \in ProcessInputs(Primary) :
          SetTracker(trackerProcess(Tracker, Primary, v))
    /\ op' = "process"
    /\ nOps' = nOps + 1
    /\ UNCHANGED <<ioVars, storeVars, appVars, envVars, arg, nOvr>>

NextClear == ClearPrimary \/ WindowProcess

SpecClear == InitDelta /\ [][NextClear]_vars

\* C15: right after clearOverride(c), c's sample buffer is empty and its mode
\* unresolved; and the mode committed after the next six events on c is the
\* decision rule applied to those six events only, whatever was processed
\* or pinned before the clear.
C15_ClearStartsNewWindow ==
    \A c \in Controllers :
        arg.id = Control("encoder", c) =>
            /\ op = "clearOverride" =>
                  /\ states[c].samples = <<>>
                  /\ states[c].mode = NoMode
            /\ (~pinned[c] /\ nSeen[c] >= MAX_SAMPLES) =>
                  /\ Len(seen[c]) = MAX_SAMPLES
                  /\ states[c].samples = seen[c]
                  /\ states[c].mode = DecisionRule(Values(seen[c]))

\* C15 witness: the controller was cleared, one event was processed, the
\* controller was cleared again, and the six events after the second clear
\* committed one-step.
C15_Witness ==
    /\ arg.id = Control("encoder", Primary)
    /\ nOvr = 2
    /\ nOps = MAX_SAMPLES + 1
    /\ ~pinned[Primary]
    /\ nSeen[Primary] = MAX_SAMPLES
    /\ seen[Primary] = <<1, 1, 127, 1, 127, 1>>
    /\ states[Primary].mode = "one-step"


(***************************************************************************)
(* Overrides across a reload of the page                                   *)
(***************************************************************************)
\* loadOverrides: the stored record parsed back; a controller without an
\* entry has no override.
loadOverrides(saved) == [c \in TrackedControllers |-> saved[c]]

\* overridesCache = loadOverrides() and new EncoderTracker() at module and
\* component initialisation.
newTracker(saved) ==
    [FreshTracker EXCEPT !.overrides = loadOverrides(saved),
                         !.saved = saved,
                         !.pinned = [c \in TrackedControllers |->
                                        loadOverrides(saved)[c] # NoMode]]

\* The mode select of an encoder row set to a mode
ChooseOverride ==
    /\ nOvr < MaxOverrideOps
    /\ \E c \in Controllers, mode \in Modes :
          /\ SetTracker(setOverride(Tracker, c, mode))
          /\ req' = [fn |-> "setOverride", controller |-> c, mode |-> mode]
    /\ op' = "setOverride"
    /\ nOvr' = nOvr + 1
    /\ UNCHANGED <<rawIn, delivered, sent, storeVars, appVars, envVars, arg, nOps>>

\* The mode select of an encoder row set to "Auto"
ChooseAuto ==
    /\ nOvr < MaxOverrideOps
    /\ \E c \in Controllers :
          /\ SetTracker(clearOverride(Tracker, c))
          /\ req' = [fn |-> "clearOverride", controller |-> c, mode |-> NoMode]
    /\ op' = "clearOverride"
    /\ nOvr' = nOvr + 1
    /\ UNCHANGED <<rawIn, delivered, sent, storeVars, appVars, envVars, arg, nOps>>

\* The page is reloaded: the tracker is built again from storage.
ReloadPage ==
    /\ op \in {"setOverride", "clearOverride"}
    /\ SetTracker(newTracker(savedOverrides))
    /\ op' = "reload"
    /\ UNCHANGED <<ioVars, storeVars, appVars, envVars, arg, nOps, nOvr>>

\* The first event of the controller last chosen, after the reload
ProcessAfterReload ==
    /\ op = "reload"
    /\ nOps < MaxRaw
    /\ \E v \in RawValues : SetTracker(trackerProcess(Tracker, req.controller, v))
    /\ op' = "process"
    /\ nOps' = nOps + 1
    /\ UNCHANGED <<ioVars, storeVars, appVars, envVars, arg, nOvr>>

NextReload == ChooseOverride \/ ChooseAuto \/ ReloadPage \/ ProcessAfterReload

SpecReload == InitDelta /\ [][NextReload]_vars

\* C31: after setOverride(c, m) the persisted override record maps c to m,
\* and a tracker created after a reload has override m for c and uses it
\* for c's next event; after clearOverride(c) the record has no entry for c
\* and a tracker created after a reload has no override for c.
C31_OverridesSurviveReload ==
    /\ op = "setOverride" => savedOverrides[req.controller] = req.mode
    /\ op = "clearOverride" => savedOverrides[req.controller] = NoMode
    /\ (op = "reload" /\ req.fn = "setOverride") =>
          /\ overrides[req.controller] = req.mode
          /\ states[req.controller] = FreshEncoderState
    /\ (op = "reload" /\ req.fn = "clearOverride") =>
          overrides[req.controller] = NoMode
    /\ (op = "process" /\ nOvr >= 1 /\ req.fn = "setOverride") =>
          (ret.controller = req.controller /\ ret.mode = req.mode)

\* Sign-magnitude was chosen for the primary controller, the page was
\* reloaded, and the controller's first event after the reload was converted
\* as sign-magnitude, without sampling.
C31_Witness ==
    /\ op = "process"
    /\ req = [fn |-> "setOverride", controller |-> Primary, mode |-> "sign-magnitude"]
    /\ overrides[Primary] = "sign-magnitude"
    /\ states[Primary].samples = <<>>
    /\ ret.mode = "sign-magnitude"
    /\ ret.raw = 65
    /\ ret.delta = -1

(***************************************************************************)
(* The decoder on its own: one midimessage event delivered to a recording  *)
(* subscriber (SpecDecode).                                                *)
(***************************************************************************)
\* Data bytes of the frames explored: both ends of the 7-bit range, its
\* middle, and bytes with the top bit set.
DataBytes == {0, 1, 64, 127, 128, 200, 255}
StatusBytes == 0..255

InFrames ==
    {<<>>}
    \cup {<<st>> : st \in StatusBytes}
    \cup {<<st, d1>> : st \in StatusBytes, d1 \in DataBytes}
    \cup {<<st, d1, d2>> : st \in StatusBytes, d1 \in DataBytes, d2 \in DataBytes}
    \cup {<<st, d1, d2, d3>> : st \in StatusBytes, d1 \in DataBytes,
                               d2 \in DataBytes, d3 \in {0, 255}}

\* handleMessage: decode, drop a null, pass the event to the subscribers
handleMessage(data) == normalizeMessage(data)

InitDecode ==
    /\ InitTrackerVars
    /\ InitStoreVars
    /\ InitAppVars
    /\ rawIn \in InFrames
    /\ delivered = NullEvent
    /\ req = <<>>
    /\ sent = <<>>
    /\ InitEnv
    /\ op = "init"
    /\ arg = NoArg
    /\ nOps = 0
    /\ nOvr = 0

MidiMessage ==
    /\ op = "init"
    /\ arg = NoArg
    /\ delivered' = handleMessage(rawIn)
    /\ op' = "handleMessage"
    /\ UNCHANGED <<trackerVars, storeVars, appVars, rawIn, req, sent, envVars, arg, nOps, nOvr>>

NextDecode == MidiMessage

SpecDecode == InitDecode /\ [][NextDecode]_vars

\* C9: a three-byte note-on frame [0x90|ch, n, v] with 7-bit n and v decodes
\* to noteon(ch, n, v) when v > 0 and to noteoff(ch, n, 0) when v = 0; a
\* note-off frame [0x80|ch, n, v] decodes to noteoff(ch, n, v).
C9_NoteFramesDecode ==
    (op = "handleMessage" /\ Len(rawIn) = 3 /\ rawIn[2] <= 127 /\ rawIn[3] <= 127) =>
        /\ \A ch \in 0..15 :
              rawIn[1] = 144 + ch =>
                  delivered = [type |-> IF rawIn[3] > 0 THEN "noteon" ELSE "noteoff",
                               channel |-> ch, num |-> rawIn[2], value |-> rawIn[3]]
        /\ \A ch \in 0..15 :
              rawIn[1] = 128 + ch =>
                  delivered = [type |-> "noteoff", channel |-> ch,
                               num |-> rawIn[2], value |-> rawIn[3]]

\* C9 witness: a note-on with velocity 0 on channel 9 was decoded as note-off.
C9_Witness ==
    /\ op = "handleMessage"
    /\ rawIn = <<153, 64, 0>>
    /\ delivered = [type |-> "noteoff", channel |-> 9, num |-> 64, value |-> 0]

\* The low seven bits of a byte.
Low7(b) == IF b >= 128 THEN b - 128 ELSE b

\* C10: a three-byte control-change frame [0xB0|ch, c, x], c and x any bytes,
\* decodes to a cc event on channel ch with controller c & 0x7F and value
\* x & 0x7F.
C10_ControlChangeFramesDecode ==
    (op = "handleMessage" /\ Len(rawIn) = 3) =>
        \A ch \in 0..15 :
            rawIn[1] = 176 + ch =>
                delivered = [type |-> "cc", channel |-> ch,
                             num |-> Low7(rawIn[2]), value |-> Low7(rawIn[3])]

\* C10 witness: data bytes with the top bit set were masked.
C10_Witness ==
    /\ op = "handleMessage"
    /\ rawIn = <<179, 200, 255>>
    /\ delivered = [type |-> "cc", channel |-> 3, num |-> 72, value |-> 127]

\* The high nibble of a status byte.
HighNibble(status) == status - (status % 16)

\* C11: the decoder yields no event, and so no subscriber is called, for an
\* empty frame, a frame whose first byte is below 0x80 or is 0xF0 or above,
\* a note-on, note-off or control-change frame with fewer than two data
\* bytes, and a frame whose status high nibble is 0xA0, 0xC0, 0xD0 or 0xE0.
C11_MalformedFramesDropped ==
    op = "handleMessage" =>
        /\ Len(rawIn) = 0 => delivered = NullEvent
        /\ (Len(rawIn) > 0 /\ (rawIn[1] < 128 \/ rawIn[1] >= 240)) =>
               delivered = NullEvent
        /\ (Len(rawIn) \in {1, 2} /\ HighNibble(rawIn[1]) \in {128, 144, 176}) =>
               delivered = NullEvent
        /\ (Len(rawIn) > 0 /\ HighNibble(rawIn[1]) \in {160, 192, 208, 224}) =>
               delivered = NullEvent

\* C11 witness: a control-change frame with one data byte was dropped.
C11_Witness ==
    /\ op = "handleMessage"
    /\ rawIn = <<176, 64>>
    /\ delivered = NullEvent

(***************************************************************************)
(* The senders on their own: one sendCC / sendNoteOn / sendNoteOff call    *)
(* with one connected output (SpecWire).                                   *)
(***************************************************************************)
SendNums == {-1, 0, 36, 127, 128}
SendValues2 == {-3, -1, 0, 1, 127, 200, 253, 254, 255, 300}
SendChannels == 0..17

SendRequest(fn, num, value2, channel) ==
    [fn |-> fn, num |-> num, value2 |-> value2, channel |-> channel]

InitWire ==
    /\ InitTrackerVars
    /\ InitStoreVars
    /\ InitAppVars
    /\ rawIn = <<>>
    /\ delivered = NullEvent
    /\ req \in {SendRequest(fn, n, v, ch) :
                  fn \in {"sendCC", "sendNoteOn", "sendNoteOff"},
                  n \in SendNums, v \in SendValues2, ch \in SendChannels}
    /\ sent = <<>>
    /\ InitEnv
    /\ op = "init"
    /\ arg = NoArg
    /\ nOps = 0
    /\ nOvr = 0

Send ==
    /\ op = "init"
    /\ arg = NoArg
    /\ sent' = << CASE req.fn = "sendCC" -> sendCC(req.num, req.value2, req.channel)
                    [] req.fn = "sendNoteOn" -> sendNoteOn(req.num, req.value2, req.channel)
                    [] req.fn = "sendNoteOff" -> sendNoteOff(req.num, req.value2, req.channel) >>
    /\ op' = "send"
    /\ UNCHANGED <<trackerVars, storeVars, appVars, rawIn, delivered, req, envVars, arg, nOps, nOvr>>

NextWire == Send

SpecWire == InitWire /\ [][NextWire]_vars

StatusOf(fn) ==
    CASE fn = "sendCC" -> 176
      [] fn = "sendNoteOn" -> 144
      [] fn = "sendNoteOff" -> 128

\* C8: sendCC, sendNoteOn and sendNoteOff each send exactly three bytes: the
\* status 0xB0, 0x90 or 0x80 OR-ed with the low nibble of the channel, the
\* controller or note number clamped to [0,127], and the value or velocity
\* rounded and clamped to [0,127].
C8_ThreeByteFrames ==
    op = "send" =>
        /\ Len(sent) = 1
        /\ sent[1].bytes =
              << StatusOf(req.fn) + (req.channel % 16),
                 Clamp(0, 127, req.num),
                 Clamp(0, 127, RoundHalves(req.value2)) >>

(***************************************************************************)
(* The binding store driven through its exported functions (SpecStore).    *)
(***************************************************************************)
Store == [state |-> state, stored |-> stored, notified |-> notified]

SetStore(m) ==
    /\ state' = m.state
    /\ stored' = m.stored
    /\ notified' = m.notified

\* Bindings handed to setBinding: the defaults of pad:0, pad:1 and of the
\* complexity and spread sliders, with and without their target, and
\* bindings that differ from every default.
StoreBindings ==
    {NoteBinding(36, 8), NoteBinding(37, 8), NoteBinding(60, 0)}
    \cup {CcBinding(c, 0, t) : c \in {82, 74}, t \in {Absent, "complexity", "spread"}}

\* Targets handed to setEncoderTarget (undefined is "No parameter").
EncoderTargets == {Undef, "complexity", "spread"}

SetBinding ==
    /\ nOps < MaxMutations
    /\ \E id \in ControlIds : \E b \in StoreBindings :
          /\ SetStore(setBinding(Store, id, b, storageOk))
          /\ arg' = [id |-> id, binding |-> b]
    /\ op' = "setBinding"
    /\ nOps' = nOps + 1
    /\ UNCHANGED <<trackerVars, ioVars, appVars, envVars, nOvr>>

ResetMapping ==
    /\ nOps < MaxMutations
    /\ SetStore(resetMapping(Store, storageOk))
    /\ arg' = NoArg
    /\ op' = "resetMapping"
    /\ nOps' = nOps + 1
    /\ UNCHANGED <<trackerVars, ioVars, appVars, envVars, nOvr>>

ResetBinding ==
    /\ nOps < MaxMutations
    /\ \E id \in ControlIds :
          /\ SetStore(resetBinding(Store, id, storageOk))
          /\ arg' = [id |-> id, binding |-> NoBinding]
    /\ op' = "resetBinding"
    /\ nOps' = nOps + 1
    /\ UNCHANGED <<trackerVars, ioVars, appVars, envVars, nOvr>>

SetEncoderTarget ==
    /\ nOps < MaxMutations
    /\ \E c \in EncoderNumbers : \E t \in EncoderTargets :
          /\ SetStore(setEncoderTarget(Store, c, t, storageOk))
          /\ arg' = [id |-> Control("encoder", c), binding |-> CcBinding(c, 0, t)]
    /\ op' = "setEncoderTarget"
    /\ nOps' = nOps + 1
    /\ UNCHANGED <<trackerVars, ioVars, appVars, envVars, nOvr>>

\* A page reload: the module is evaluated again and loadMapping runs.
Reload ==
    /\ nOps < MaxMutations
    /\ state' = loadMapping(stored)
    /\ notified' = 0
    /\ arg' = NoArg
    /\ op' = "reload"
    /\ nOps' = nOps + 1
    /\ UNCHANGED <<stored, trackerVars, ioVars, appVars, envVars, nOvr>>

InitStore ==
    /\ InitTrackerVars
    /\ InitStoreVars
    /\ InitAppVars
    /\ InitIO
    /\ InitEnv
    /\ op = "init"
    /\ arg = NoArg
    /\ nOps = 0
    /\ nOvr = 0

NextStore == SetBinding \/ ResetMapping \/ ResetBinding \/ SetEncoderTarget \/ Reload

SpecStore == InitStore /\ [][NextStore]_vars

\* C4: after every mutation of the table whose write reaches storage, the
\* persisted record has an entry for exactly the controls whose binding is
\* not the compiled default, and that entry is the binding; after
\* setBinding(control, default of that control) the record has no entry for
\* that control.
C4_PersistedDelta ==
    /\ \A id \in ControlIds :
          /\ stored[id] = NoBinding <=> state[id] = DEFAULT_MAPPING[id]
          /\ stored[id] # NoBinding =>
                /\ stored[id].type = state[id].type
                /\ stored[id].num = state[id].num
                /\ stored[id].channel = state[id].channel
                /\ hasTarget(state[id]) => stored[id].target = state[id].target
                /\ ~hasTarget(state[id]) => stored[id].target = Absent
    /\ (op = "setBinding" /\ arg.binding = DEFAULT_MAPPING[arg.id]) =>
          stored[arg.id] = NoBinding

\* C4 witness: pad:0, overridden before, was set back to a binding equal to
\* its default while another control stays overridden.
C4_Witness ==
    /\ op = "setBinding"
    /\ arg = [id |-> Control("pad", 0), binding |-> NoteBinding(36, 8)]
    /\ stored[Control("pad", 0)] = NoBinding
    /\ \E id \in ControlIds : stored[id] # NoBinding

\* C5: setBinding(control, b) stores b for the control, carrying over the
\* previous target when the previous binding is control-change with a target
\* and b is control-change without one, and changes no other control.
C5_SetBindingReplaces ==
    [][ \A id \in ControlIds : \A b \in StoreBindings :
          (op' = "setBinding" /\ arg' = [id |-> id, binding |-> b]) =>
              /\ state'[id] =
                    IF /\ state[id].type = "cc"
                       /\ state[id].target \in ParamKeySet
                       /\ b.type = "cc"
                       /\ b.target \notin ParamKeySet
                    THEN CcBinding(b.num, b.channel, state[id].target)
                    ELSE b
              /\ \A o \in ControlIds \ {id} : state'[o] = state[o] ]_vars

\* C5 witness: the spread slider was rebound to controller 74 by a binding
\* without a target and kept its target.
C5_Witness ==
    /\ op = "setBinding"
    /\ arg = [id |-> Control("slider", 2), binding |-> CcBinding(74, 0, Absent)]
    /\ state[Control("slider", 2)] = CcBinding(74, 0, "spread")

\* C16: resetMapping() with no argument makes the table equal to the
\* compiled defaults whatever it was, and a second one right after it leaves
\* the table and the persisted record as the first left them.
C16_ResetIdempotent ==
    [][ op' = "resetMapping" =>
            /\ state' = DEFAULT_MAPPING
            /\ op = "resetMapping" => (state' = state /\ stored' = stored) ]_vars

\* C16 witness: two mutations were made, the second a reset, which left the
\* defaults and an empty record.
C16_Witness ==
    /\ op = "resetMapping"
    /\ nOps = 2
    /\ notified = 2
    /\ state = DEFAULT_MAPPING
    /\ stored = EmptyRecord

\* Two bindings getBinding cannot tell apart: the same fields, a target
\* holding undefined being the same as no target.
SameBinding(a, b) ==
    /\ a.type = b.type
    /\ a.num = b.num
    /\ a.channel = b.channel
    /\ (IF hasTarget(a) THEN a.target ELSE Undef) = (IF hasTarget(b) THEN b.target ELSE Undef)

\* C17: a reload (the defaults overlaid with the persisted record) gives, for
\* every control, the binding the table held before the reload.
C17_ReloadReconstructs ==
    [][ op' = "reload" =>
            \A id \in ControlIds : SameBinding(state'[id], state[id]) ]_vars

\* C17 witness: a reload after a mutation gave back a table in which the
\* complexity slider is on controller 74, not on its default.
C17_Witness ==
    /\ op = "reload"
    /\ nOps = 2
    /\ state[Control("slider", 1)] = CcBinding(74, 0, "complexity")
    /\ state[Control("slider", 1)] # DEFAULT_MAPPING[Control("slider", 1)]

\* C20: setEncoderTarget(controller, t) changes only the target of the
\* binding of encoder:controller when that binding is control-change (its
\* controller, its channel and every other control's binding stay); when
\* there is no such binding the table and the persisted record stay as they
\* are and observers are not notified.
C20_SetEncoderTargetFrame ==
    [][ \A c \in EncoderNumbers : \A t \in EncoderTargets :
          (op' = "setEncoderTarget"
           /\ arg' = [id |-> Control("encoder", c), binding |-> CcBinding(c, 0, t)]) =>
              LET id == Control("encoder", c)
              IN  IF state[id].type = "cc"
                  THEN /\ state'[id].type = "cc"
                       /\ state'[id].num = state[id].num
                       /\ state'[id].channel = state[id].channel
                       /\ state'[id].target = t
                       /\ \A o \in ControlIds \ {id} : state'[o] = state[o]
                       /\ notified' = notified + 1
                  ELSE /\ state' = state
                       /\ stored' = stored
                       /\ notified' = notified ]_vars

\* C20 witness: encoder:74, bound to controller 82, was given the target
\* complexity and is still on controller 82.
C20_Witness ==
    /\ op = "setEncoderTarget"
    /\ arg.id = Control("encoder", 74)
    /\ arg.binding.target = "complexity"
    /\ notified = 2
    /\ state[Control("encoder", 74)] = CcBinding(82, 0, "complexity")
    /\ stored[Control("encoder", 74)] = CcBinding(82, 0, "complexity")

(***************************************************************************)
(* App.tsx: the router between the hardware, the stores and the UI         *)
(***************************************************************************)
MaxAppOps == 3          \* UI and MIDI operations explored in Spec

\* midiEventKey(binding) = the key built from the event
matches(binding, type, event) ==
    binding.type = type /\ binding.num = event.num /\ binding.channel = event.channel

SetMax(S) == CHOOSE m \in S : \A x \in S : x <= m

\* padBindingsByEvent.get(key): Map.set in PAD_MAPPINGS order, so the last pad
\* bound to the key wins; -1 for undefined.
padBindingsByEvent_AnyChannel(mapping, event) ==
    LET hits == {i \in 0..(NumPads - 1) :
                    /\ mapping[Control("pad", i)].type = "note"
                    /\ mapping[Control("pad", i)].num = event.num}
    IN  IF hits = {} THEN -1 ELSE SetMax(hits)
padBindingsByEvent(mapping, event) ==
    LET hits == {i \in 0..(NumPads - 1) : matches(mapping[Control("pad", i)], "note", event)}
    IN  IF hits = {} THEN -1 ELSE SetMax(hits)

\* ccBindingMap.get(ccKey): the position in SLIDER_KEYS of the last slider
\* bound to the key; 0 for undefined.
ccBindingMap_None(mapping, event) == 0
ccBindingMap(mapping, event) ==
    LET hits == {i \in DOMAIN ParamKeys : matches(mapping[Control("slider", i)], "cc", event)}
    IN  IF hits = {} THEN 0 ELSE SetMax(hits)

\* encoderBindings.get(ccKey): the controller of the encoder row bound to the
\* key (the table lists encoder rows in ascending controller order, the last
\* one wins); -1 for undefined.
encoderBindings_ByRow(mapping, event) ==
    LET hits == {c \in EncoderNumbers : event.type = "cc" /\ c = event.num}
    IN  IF hits = {} THEN -1 ELSE SetMax(hits)
encoderBindings(mapping, event) ==
    LET hits == {c \in EncoderNumbers : matches(mapping[Control("encoder", c)], "cc", event)}
    IN  IF hits = {} THEN -1 ELSE SetMax(hits)

\* paramsStore.setParam: the value is clamped to [0, 1]; storing the value
\* already held changes nothing.
setParam(p, key, value) == [p EXCEPT ![key] = clamp01(value)]

scheduleHardwareParamUpdate(b, key, value) ==
    [b EXCEPT ![key] = [value |-> value, raf |-> TRUE]]

\* sendPadSysex(PAD_MAPPINGS[uiIndex]) with the colours of the last render
sendPadSysex(colors, uiIndex) ==
    LET pv == padValue(uiIndex)
    IN  IF pv \notin DOMAIN colors THEN <<>>
        ELSE <<padSysex(pv, colors[pv].r, colors[pv].g, colors[pv].b)>>

\* The requestAnimationFrame callback of scheduleHardwareParamUpdate: what it
\* leaves in the parameter store and the bucket, and the frames it sends.
frameCallback_Echo(p, b, mapping, key) ==
    LET binding == mapping[Control("slider", indexOf(ParamKeys, key))]
    IN  [params |-> setParam(p, key, b[key].value),
         bucket |-> [b EXCEPT ![key].raf = FALSE],
         sent |-> IF binding.type = "cc"
                  THEN <<sendCC(binding.num, 2 * paramToCC(key, b[key].value), binding.channel)>>
                  ELSE <<>>,
         calls |-> {"setParam", "sendCC"}]
frameCallback(p, b, mapping, key) ==
    [params |-> setParam(p, key, b[key].value),
     bucket |-> [b EXCEPT ![key].raf = FALSE],
     sent |-> <<>>,
     calls |-> {"setParam"}]

\* const proposed = prev + delta.delta * 0.01
proposed_WholeSteps(prev, delta) == prev + delta * ONE
proposed(prev, delta) == prev + delta * (ONE \div 100)

\* handleMidiEvent.  The lookups after the learn block go through the maps
\* memoized at the last render, that is the table as it was before this
\* event; getParamValue reads the store.
handleMidiEvent(event) ==
    LET binding == IF learnTarget # NoControl THEN captureBindingFromEvent(event)
                   ELSE NoBinding
        captured == binding # NoBinding
        relearn == captured /\ learnTarget.kind = "encoder" /\ binding.type = "cc"
        m1 == IF captured THEN setBinding(Store, learnTarget, binding, storageOk) ELSE Store
        t1 == IF relearn THEN clearOverride(Tracker, learnTarget.n) ELSE Tracker
        isNote == event.type \in {"noteon", "noteoff"}
        padIndex == IF isNote THEN padBindingsByEvent(state, event) ELSE -1
        slider == IF event.type = "cc" THEN ccBindingMap(state, event) ELSE 0
        encoder == IF event.type = "cc" /\ slider = 0 THEN encoderBindings(state, event)
                   ELSE -1
        activate == padIndex >= 0 /\ event.type = "noteon"
        t2 == IF encoder >= 0 THEN trackerProcess(t1, event.num, event.value) ELSE t1
        encBinding == state[Control("encoder", encoder)]
        target == IF hasTarget(encBinding) THEN encBinding.target ELSE "spread"
        turn == encoder >= 0 /\ t2.ret.delta # 0
        key == IF slider > 0 THEN ParamKeys[slider] ELSE target
        next == IF slider > 0
                THEN applyIncomingValue(key, event.value, params[key])
                ELSE normalizeUserInput(key, proposed(params[key], t2.ret.delta),
                                        params[key])
    IN  /\ SetStore(m1)
        /\ SetTracker(t2)
        /\ learnTarget' = IF captured THEN NoControl ELSE learnTarget
        /\ activePadIndex' = IF activate THEN padIndex ELSE activePadIndex
        /\ sent' = IF activate THEN sendPadSysex(padColors, padIndex) ELSE <<>>
        /\ bucket' = IF slider > 0 \/ turn
                     THEN scheduleHardwareParamUpdate(bucket, key, next) ELSE bucket
        /\ calls' = (IF captured THEN {"setBinding"} ELSE {})
                    \cup (IF relearn THEN {"clearOverride"} ELSE {})
                    \cup (IF activate THEN {"setActivePadIndex", "sendPadSysex"} ELSE {})
                    \cup (IF encoder >= 0 THEN {"tracker.process"} ELSE {})
                    \cup (IF slider > 0 \/ turn THEN {"scheduleHardwareParamUpdate"} ELSE {})
        /\ UNCHANGED <<padColors, params, suppressOutgoing>>

\* Frames the hardware sends: pad notes on channel 9, a pad's note on
\* channel 1 (which no pad is bound to), the slider and encoder controllers
\* and a real-time byte.
AppFrames ==
    { <<152, 36, 100>>, <<152, 37, 100>>, <<136, 36, 0>>, <<144, 37, 100>>,
      <<176, 82, 66>>, <<176, 83, 64>>, <<176, 74, 1>>, <<176, 74, 65>>,
      <<248>> }

\* Range-input positions (0..1000) the user drags a slider to.
SliderPositions == {0, 580}

\* Stored records a session can start from.  The defaults hold no encoder
\* binding, so an encoder row exists only when the stored record has one.
InitialRecords ==
    { EmptyRecord,
      [EmptyRecord EXCEPT ![Control("encoder", 74)] = CcBinding(74, 0, "tension")] }

\* encoderAssignments: the encoder rows the mapping panel shows
encoderAssignments == {c \in EncoderNumbers : state[Control("encoder", c)].type = "cc"}

Init ==
    /\ InitTrackerVars
    /\ InitIO
    /\ stored \in InitialRecords
    /\ state = loadMapping(stored)
    /\ notified = 0
    /\ learnTarget = NoControl
    /\ activePadIndex = 0
    /\ padColors = buildDefaultPadColors
    /\ params \in InitialParams
    /\ bucket = [k \in ParamKeySet |-> [value |-> 0, raf |-> FALSE]]
    /\ suppressOutgoing = FALSE
    /\ calls = {}
    /\ InitEnv
    /\ op = "init"
    /\ arg = NoArg
    /\ nOps = 0
    /\ nOvr = 0

\* useWebMIDI handleMessage followed by the App's onMessage listener
MidiInput ==
    /\ nOps < MaxAppOps
    /\ \E data \in AppFrames :
          /\ rawIn' = data
          /\ delivered' = handleMessage(data)
          /\ IF handleMessage(data) = NullEvent
             THEN /\ sent' = <<>>
                  /\ calls' = {}
                  /\ UNCHANGED <<trackerVars, storeVars, learnTarget, activePadIndex,
                                 padColors, params, bucket, suppressOutgoing>>
             ELSE handleMidiEvent(handleMessage(data))
    /\ op' = "midi"
    /\ nOps' = nOps + 1
    /\ UNCHANGED <<req, envVars, arg, nOvr>>

\* The browser runs a requested animation frame callback.
AnimationFrame ==
    /\ \E key \in ParamKeySet :
          /\ bucket[key].raf
          /\ LET r == frameCallback(params, bucket, state, key)
             IN  /\ params' = r.params
                 /\ bucket' = r.bucket
                 /\ sent' = r.sent
                 /\ calls' = r.calls
          /\ arg' = [id |-> Control("slider", indexOf(ParamKeys, key)), binding |-> NoBinding]
    /\ suppressOutgoing' = FALSE
    /\ op' = "raf"
    /\ UNCHANGED <<trackerVars, storeVars, rawIn, delivered, req, learnTarget,
                   activePadIndex, padColors, envVars, nOps, nOvr>>

\* handleSliderInput(key, position / 1000)
HandleSliderInput ==
    /\ nOps < MaxAppOps
    /\ \E i \in DOMAIN ParamKeys, position \in SliderPositions :
          LET key == ParamKeys[i]
              binding == state[Control("slider", i)]
              previous == params[key]
              normalized == normalizeUserInput(key, position * (ONE \div 1000), previous)
              emit == ~suppressOutgoing /\ binding.type = "cc"
          IN  /\ arg' = [id |-> Control("slider", i), binding |-> binding]
              /\ IF normalized = previous
                 THEN /\ sent' = <<>>
                      /\ calls' = {}
                      /\ UNCHANGED params
                 ELSE /\ params' = setParam(params, key, normalized)
                      /\ sent' = IF emit
                                 THEN <<sendCC(binding.num, 2 * paramToCC(key, normalized),
                                               binding.channel)>>
                                 ELSE <<>>
                      /\ calls' = {"setParam"} \cup (IF emit THEN {"sendCC"} ELSE {})
    /\ op' = "handleSliderInput"
    /\ nOps' = nOps + 1
    /\ UNCHANGED <<trackerVars, storeVars, rawIn, delivered, req, learnTarget,
                   activePadIndex, padColors, bucket, suppressOutgoing, envVars, nOvr>>

\* A Learn button of the mapping panel
StartLearn ==
    /\ nOps < MaxAppOps
    /\ \E control \in PadIds \cup SliderIds \cup {Control("encoder", c) : c \in encoderAssignments} :
          /\ learnTarget' = control
          /\ arg' = [id |-> control, binding |-> NoBinding]
    /\ sent' = <<>>
    /\ calls' = {}
    /\ op' = "startLearn"
    /\ nOps' = nOps + 1
    /\ UNCHANGED <<trackerVars, storeVars, rawIn, delivered, req, activePadIndex,
                   padColors, params, bucket, suppressOutgoing, envVars, nOvr>>

\* The target select of an encoder row
SelectEncoderTarget ==
    /\ nOps < MaxAppOps
    /\ \E c \in encoderAssignments, t \in {Undef, "complexity"} :
          /\ SetStore(setEncoderTarget(Store, c, t, storageOk))
          /\ arg' = [id |-> Control("encoder", c), binding |-> CcBinding(c, 0, t)]
    /\ sent' = <<>>
    /\ calls' = {"setEncoderTarget"}
    /\ op' = "selectEncoderTarget"
    /\ nOps' = nOps + 1
    /\ UNCHANGED <<trackerVars, rawIn, delivered, req, learnTarget, activePadIndex,
                   padColors, params, bucket, suppressOutgoing, envVars, nOvr>>

\* The mode select of an encoder row: "Auto" clears the override
SelectEncoderMode ==
    /\ nOps < MaxAppOps
    /\ \E c \in encoderAssignments, mode \in {NoMode, "absolute"} :
          /\ SetTracker(IF mode = NoMode THEN clearOverride(Tracker, c)
                        ELSE setOverride(Tracker, c, mode))
          /\ arg' = [id |-> Control("encoder", c), binding |-> NoBinding]
    /\ sent' = <<>>
    /\ calls' = {"override"}
    /\ op' = "selectEncoderMode"
    /\ nOps' = nOps + 1
    /\ UNCHANGED <<storeVars, rawIn, delivered, req, learnTarget, activePadIndex,
                   padColors, params, bucket, suppressOutgoing, envVars, nOvr>>

\* The Reset Mapping button
ClickResetMapping ==
    /\ nOps < MaxAppOps
    /\ SetStore(resetMapping(Store, storageOk))
    /\ arg' = NoArg
    /\ sent' = <<>>
    /\ calls' = {"resetMapping"}
    /\ op' = "clickResetMapping"
    /\ nOps' = nOps + 1
    /\ UNCHANGED <<trackerVars, rawIn, delivered, req, learnTarget, activePadIndex,
                   padColors, params, bucket, suppressOutgoing, envVars, nOvr>>

Next ==
    \/ MidiInput
    \/ AnimationFrame
    \/ HandleSliderInput
    \/ StartLearn
    \/ SelectEncoderTarget
    \/ SelectEncoderMode
    \/ ClickResetMapping

Spec == Init /\ [][Next]_vars

(***************************************************************************)
(* Properties of the router                                                *)
(***************************************************************************)
\* The calls by which an event acts as live input.
LiveInputCalls ==
    {"setActivePadIndex", "sendPadSysex", "scheduleHardwareParamUpdate", "tracker.process"}

\* C1: when learn is armed and the incoming event is captured and bound, the
\* event has no further effect: it activates no pad, sends no feedback
\* frame, schedules no parameter update and is not handed to the encoder
\* tracker.
C1_LearnEventConsumed ==
    (op = "midi" /\ "setBinding" \in calls) =>
        /\ calls \cap LiveInputCalls = {}
        /\ sent = <<>>

\* C6: neither the handling of an incoming MIDI event nor the deferred frame
\* callback that applies its parameter update sends a control-change to the
\* hardware.
C6_NoEchoToHardware ==
    op \in {"midi", "raf"} =>
        /\ "sendCC" \notin calls
        /\ \A i \in DOMAIN sent : sent[i].via # "sendCC"

\* An incoming control-change on a slider's controller has been applied by
\* the frame callback: the parameter holds the scheduled value, the slider
\* has a control-change binding, and nothing was sent.
C6_Witness ==
    /\ op = "raf"
    /\ delivered.type = "cc"
    /\ arg.id.kind = "slider"
    /\ state[arg.id].type = "cc"
    /\ state[arg.id].num = delivered.num
    /\ params[ParamKeys[arg.id.n]] = bucket[ParamKeys[arg.id.n]].value
    /\ params[ParamKeys[arg.id.n]] > 0
    /\ sent = <<>>

\* C21: learn has no timeout.  Once armed it is disarmed only by a decoded
\* MIDI event (a frame that does not decode, a frame callback or a slider
\* move leave it armed, a Learn button re-arms it); the first decoded event
\* that arrives while it is armed is bound to the armed control with the
\* event's note or controller number and channel, and learn is disarmed; an
\* event arriving while learn is not armed changes no binding.
C21_LearnUntilFirstEvent ==
    [][ /\ (learnTarget # NoControl /\ learnTarget' # learnTarget) =>
              \/ op' = "startLearn" /\ learnTarget' # NoControl
              \/ op' = "midi" /\ delivered' # NullEvent /\ learnTarget' = NoControl
        /\ (op' = "midi" /\ learnTarget # NoControl /\ delivered' # NullEvent) =>
              /\ learnTarget' = NoControl
              /\ state'[learnTarget].type =
                    (IF delivered'.type = "cc" THEN "cc" ELSE "note")
              /\ state'[learnTarget].num = delivered'.num
              /\ state'[learnTarget].channel = delivered'.channel
              /\ \A id \in ControlIds \ {learnTarget} : state'[id] = state[id]
        /\ (op' = "midi" /\ learnTarget = NoControl) =>
              /\ state' = state
              /\ stored' = stored
              /\ learnTarget' = NoControl
              /\ "setBinding" \notin calls'
      ]_vars

\* Pad 1 was learned from a note-on of note 37 on channel 0, learn was
\* disarmed by it, and the next event, a note-on of pad 0's note, was
\* handled as live input: it activated its pad and bound nothing.
C21_Witness ==
    /\ op = "midi"
    /\ nOps = 3
    /\ learnTarget = NoControl
    /\ state[Control("pad", 1)] = NoteBinding(37, 0)
    /\ delivered.type = "noteon"
    /\ delivered.num = 36
    /\ "setActivePadIndex" \in calls
    /\ "setBinding" \notin calls

\* The pads whose binding in table m is the note binding of event e.
PadsBoundTo(m, e) ==
    {i \in 0..(NumPads - 1) : m[Control("pad", i)] = NoteBinding(e.num, e.channel)}

SlidersBoundTo(m, e) ==
    {i \in DOMAIN ParamKeys : LET b == m[Control("slider", i)]
                              IN  b.type = "cc" /\ b.num = e.num /\ b.channel = e.channel}
EncodersBoundTo(m, e) ==
    {c \in EncoderNumbers : LET b == m[Control("encoder", c)]
                            IN  b.type = "cc" /\ b.num = e.num /\ b.channel = e.channel}

\* C23: with learn not armed, a control-change whose channel and controller
\* are bound both to a slider and to an encoder is handled as the slider
\* only: one update is scheduled, for a slider bound to it, with the value
\* applyIncomingValue gives; the encoder tracker is not called and its state
\* is unchanged.  For every event at most one of the pad, slider and encoder
\* handlers applies.
C23_SliderBeforeEncoder ==
    [][ op' = "midi" =>
          /\ (learnTarget = NoControl /\ delivered'.type = "cc"
                /\ SlidersBoundTo(state, delivered') # {}
                /\ EncodersBoundTo(state, delivered') # {}) =>
                /\ calls' = {"scheduleHardwareParamUpdate"}
                /\ \E i \in SlidersBoundTo(state, delivered') :
                      bucket' = [bucket EXCEPT ![ParamKeys[i]] =
                                    [value |-> applyIncomingValue(ParamKeys[i],
                                                                  delivered'.value,
                                                                  params[ParamKeys[i]]),
                                     raf |-> TRUE]]
                /\ UNCHANGED <<trackerVars, params, storeVars>>
          /\ ~("setActivePadIndex" \in calls' /\ "scheduleHardwareParamUpdate" \in calls')
          /\ ~("setActivePadIndex" \in calls' /\ "tracker.process" \in calls')
          /\ "tracker.process" \in calls' =>
                (delivered'.type = "cc" /\ SlidersBoundTo(state, delivered') = {})
      ]_vars

\* A control-change of controller 74, bound to the encoder row and (after a
\* learn) to a slider, arrived with learn not armed and scheduled one update.
C23_Witness ==
    /\ op = "midi"
    /\ learnTarget = NoControl
    /\ "setBinding" \notin calls
    /\ delivered.type = "cc"
    /\ SlidersBoundTo(state, delivered) # {}
    /\ EncodersBoundTo(state, delivered) # {}
    /\ calls = {"scheduleHardwareParamUpdate"}
    /\ \E k \in ParamKeySet : bucket[k].raf

\* Event e matches no pad, slider or encoder binding of table m.
Unmatched(m, e) ==
    /\ e.type \in {"noteon", "noteoff"} => PadsBoundTo(m, e) = {}
    /\ e.type = "cc" => (SlidersBoundTo(m, e) = {} /\ EncodersBoundTo(m, e) = {})

\* C24: with learn not armed, a decoded event that matches no pad, slider
\* or encoder binding leaves the binding table and its stored record, every
\* parameter value and scheduled update, the active pad and the encoder
\* observation state unchanged, calls nothing and sends no frame.
C24_UnmatchedEventDropped ==
    [][ (op' = "midi" /\ learnTarget = NoControl /\ delivered' # NullEvent
            /\ Unmatched(state, delivered')) =>
          /\ sent' = <<>>
          /\ calls' = {}
          /\ UNCHANGED <<trackerVars, storeVars, learnTarget, activePadIndex,
                         padColors, params, bucket, suppressOutgoing, envVars>>
      ]_vars

\* A control-change of controller 74 arrived while the table had no encoder
\* row and no slider on that controller, with learn not armed.
C24_Witness ==
    /\ op = "midi"
    /\ learnTarget = NoControl
    /\ delivered.type = "cc"
    /\ delivered.num = 74
    /\ Unmatched(state, delivered)
    /\ calls = {}
    /\ sent = <<>>

\* raw / 127 lies inside the band of the stop that parameter key holds,
\* widened by the parameter's hysteresis margin.
InsideCurrentBand(key, raw, previous) ==
    LET definition == discreteSemantics(key)
        index == indexOf(definition.stops, previous)
    IN  /\ definition # NoDefinition
        /\ index >= 1
        /\ inBand(definition.stops, definition.hysteresis, index,
                  clamp01(raw * (ONE \div 127)))

\* C25: when a control-change is matched to the slider of a quantized
\* parameter (learn not armed) and raw / 127 lies inside the current stop's
\* band widened by the hysteresis margin, the value scheduled for the
\* parameter is the stop it already holds.
C25_IncomingValueHysteresis ==
    [][ (op' = "midi" /\ learnTarget = NoControl /\ delivered'.type = "cc"
            /\ SlidersBoundTo(state, delivered') # {}) =>
          LET key == ParamKeys[SetMax(SlidersBoundTo(state, delivered'))]
          IN  InsideCurrentBand(key, delivered'.value, params[key]) =>
                 /\ bucket'[key].raf
                 /\ bucket'[key].value = params[key]
      ]_vars

\* C27: with learn not armed, a control-change matched to an encoder
\* binding and to no slider binding is handed to the encoder tracker exactly
\* once (one more observation of that controller, the returned delta is for
\* this controller and raw value); if the delta d is nonzero one update is
\* scheduled, for the encoder's target (spread when it has none), with the
\* value normalizeUserInput(target, prev + 0.01 * d, prev), prev being the
\* target's current value; if d is zero nothing is scheduled.
C27_EncoderAppliesDelta ==
    [][ (op' = "midi" /\ learnTarget = NoControl /\ delivered'.type = "cc"
            /\ SlidersBoundTo(state, delivered') = {}
            /\ EncodersBoundTo(state, delivered') # {}) =>
          LET c == delivered'.num
              binding == state[Control("encoder", SetMax(EncodersBoundTo(state, delivered')))]
              target == IF binding.target \in ParamKeySet THEN binding.target ELSE "spread"
              prev == params[target]
              d == ret'.delta
          IN  /\ "tracker.process" \in calls'
              /\ ret'.controller = c
              /\ ret'.raw = delivered'.value
              /\ nSeen'[c] = IF pinned[c] THEN nSeen[c] ELSE nSeen[c] + 1
              /\ \A o \in TrackedControllers \ {c} : states'[o] = states[o]
              /\ d # 0 =>
                    /\ "scheduleHardwareParamUpdate" \in calls'
                    /\ bucket' = [bucket EXCEPT ![target] =
                          [value |-> normalizeUserInput(target, prev + d * (ONE \div 100), prev),
                           raf |-> TRUE]]
              /\ d = 0 => (bucket' = bucket /\ "scheduleHardwareParamUpdate" \notin calls')
              /\ UNCHANGED <<params, storeVars, activePadIndex>>
      ]_vars

\* The encoder on controller 74 has no target; a control-change of that
\* controller (bound to no slider) gave a nonzero delta and an update of
\* spread away from its current value was scheduled.
C27_Witness ==
    /\ op = "midi"
    /\ learnTarget = NoControl
    /\ "setBinding" \notin calls
    /\ delivered.type = "cc"
    /\ SlidersBoundTo(state, delivered) = {}
    /\ EncodersBoundTo(state, delivered) = {74}
    /\ ~hasTarget(state[Control("encoder", 74)])
    /\ ret.delta # 0
    /\ bucket["spread"].raf
    /\ bucket["spread"].value # params["spread"]
    /\ bucket["spread"].value = params["spread"] + ret.delta * (ONE \div 100)

\* C33: in every reachable state of the App each pad binding is a note
\* binding and each slider or encoder binding is a control-change binding
\* (or the control is unbound).
C33_BindingForms ==
    \A id \in DOMAIN state :
        /\ id.kind = "pad" => state[id].type \in {"note", "none"}
        /\ id.kind \in {"slider", "encoder"} => state[id].type \in {"cc", "none"}

\* C34: a control-change matched to an encoder binding (and to no slider
\* binding) whose target is unset changes no parameter value and schedules
\* no change of one, whatever delta the tracker returns.
C34_NoTargetNoChange ==
    [][ (op' = "midi" /\ delivered'.type = "cc"
            /\ SlidersBoundTo(state, delivered') = {}
            /\ EncodersBoundTo(state, delivered') # {}
            /\ \A c \in EncodersBoundTo(state, delivered') :
                  ~hasTarget(state[Control("encoder", c)]))
        => /\ params' = params
           /\ bucket' = bucket ]_vars

StopsOf(key) == { semanticStops(key)[i] : i \in DOMAIN semanticStops(key) }

\* C37: in every reachable state of the App every parameter lies in [0, 1]
\* and each quantized parameter holds one of its stops.
C37_ParamsInRangeOnStops ==
    \A key \in ParamKeySet :
        /\ params[key] >= 0
        /\ params[key] <= ONE
        /\ semanticStops(key) # <<>> => params[key] \in StopsOf(key)

\* The user dragged a slider, a hardware slider event and an encoder event
\* were applied: complexity has left its initial stop and spread holds a
\* value that is no multiple of a quarter.
C37_Witness ==
    /\ op \in {"raf", "handleSliderInput"}
    /\ "setParam" \in calls
    /\ \E key \in ParamKeySet \ {"spread"} :
          /\ params[key] \notin {INITIAL_STATE[key], ONE \div 3, ONE}
          /\ params[key] \in StopsOf(key)
    /\ params["spread"] \notin {0, ONE \div 4, ONE \div 2, (3 * ONE) \div 4, ONE}

\* C7: a user slider change that changes the resolved value of a parameter
\* whose slider has a control-change binding emits exactly one frame, the
\* control-change <<0xB0 + channel, controller, paramToCC(key, new value)>>
\* of that binding; a user change that leaves the resolved value unchanged
\* emits nothing.
C7_UserChangeEmitsControlChange ==
    op = "handleSliderInput" =>
        LET key == ParamKeys[arg.id.n]
            binding == arg.binding
        IN  /\ ("setParam" \in calls /\ binding.type = "cc") =>
                  sent = << Frame("sendCC",
                                  <<176 + binding.channel, binding.num,
                                    paramToCC(key, params[key])>>) >>
            /\ "setParam" \notin calls => sent = <<>>

(***************************************************************************)
(* mapping.ts: loading a stored record that may be corrupt                 *)
(***************************************************************************)
\* The value of a key of the stored object that is not a binding record
\* (a number, a string, null).
JunkValue == [type |-> "junk", num |-> -1, channel |-> -1, target |-> Absent]

\* What reading the stored record can give: getItem throws, JSON.parse
\* throws, or the text parses to null, a number, a string or an object.
StoredKinds == {"unreadable", "unparseable", "null", "number", "string", "object"}

\* loadMapping with its try/catch: the table it leaves and the warnings it
\* logs.  Spreading null or a number adds no key; spreading a string adds
\* the keys "0", "1", ..., none of them a control identifier; spreading an
\* object copies every key with whatever value it holds.
loadFromStorage(kind, rec, table) ==
    CASE kind \in {"unreadable", "unparseable"} -> [state |-> table, warned |-> 1]
      [] kind \in {"null", "number", "string"} -> [state |-> DEFAULT_MAPPING, warned |-> 0]
      [] OTHER -> [state |-> loadMapping(rec), warned |-> 0]

\* Stored objects: one key, holding a binding or a value that is not one.
StoredObjects ==
    {EmptyRecord}
    \cup {[EmptyRecord EXCEPT ![id] = v] :
             id \in ControlIds, v \in StoreBindings \cup {JunkValue}}

\* The module before loadMapping() runs: the table is the defaults.
InitLoad ==
    /\ InitTrackerVars
    /\ InitAppVars
    /\ InitIO
    /\ storageOk = TRUE
    /\ warned = 0
    /\ \/ storedKind = "object" /\ stored \in StoredObjects
       \/ storedKind \in StoredKinds \ {"object"} /\ stored = EmptyRecord
    /\ state = DEFAULT_MAPPING
    /\ notified = 0
    /\ op = "init"
    /\ arg = NoArg
    /\ nOps = 0
    /\ nOvr = 0

\* loadMapping() at module load
Load ==
    /\ op = "init"
    /\ state' = loadFromStorage(storedKind, stored, state).state
    /\ warned' = warned + loadFromStorage(storedKind, stored, state).warned
    /\ op' = "load"
    /\ UNCHANGED <<stored, notified, trackerVars, ioVars, appVars, storageOk,
                   storedKind, arg, nOps, nOvr>>

NextLoad == Load

SpecLoad == InitLoad /\ [][NextLoad]_vars

\* The stored record is not the JSON text of a mapping from control
\* identifiers to binding records.
CorruptRecord ==
    \/ storedKind # "object"
    \/ \E id \in ControlIds : stored[id] = JunkValue

\* C18: when the stored record is unreadable, unparseable or parses to
\* something that is not a mapping from control identifiers to binding
\* records, the table after loading equals the compiled defaults.
C18_CorruptRecordGivesDefaults ==
    (op = "load" /\ CorruptRecord) => state = DEFAULT_MAPPING

(***************************************************************************)
(* mapping.ts: mutations while storage rejects every write                 *)
(***************************************************************************)
\* persistMapping's catch: one console.warn for a write that throws
persistWarnings(ok) == IF ok THEN 0 ELSE 1

\* A session in which localStorage.setItem throws on every call.
InitFaulty ==
    /\ InitTrackerVars
    /\ InitStoreVars
    /\ InitAppVars
    /\ InitIO
    /\ storageOk = FALSE
    /\ storedKind = "object"
    /\ warned = 0
    /\ op = "init"
    /\ arg = NoArg
    /\ nOps = 0
    /\ nOvr = 0

FailingSetBinding ==
    /\ nOps < MaxMutations
    /\ \E id \in ControlIds : \E b \in StoreBindings :
          /\ SetStore(setBinding(Store, id, b, storageOk))
          /\ arg' = [id |-> id, binding |-> b]
    /\ warned' = warned + persistWarnings(storageOk)
    /\ op' = "setBinding"
    /\ nOps' = nOps + 1
    /\ UNCHANGED <<trackerVars, ioVars, appVars, storageOk, storedKind, nOvr>>

FailingResetMapping ==
    /\ nOps < MaxMutations
    /\ SetStore(resetMapping(Store, storageOk))
    /\ arg' = NoArg
    /\ warned' = warned + persistWarnings(storageOk)
    /\ op' = "resetMapping"
    /\ nOps' = nOps + 1
    /\ UNCHANGED <<trackerVars, ioVars, appVars, storageOk, storedKind, nOvr>>

FailingSetEncoderTarget ==
    /\ nOps < MaxMutations
    /\ \E c \in EncoderNumbers : \E t \in EncoderTargets :
          /\ SetStore(setEncoderTarget(Store, c, t, storageOk))
          /\ arg' = [id |-> Control("encoder", c), binding |-> CcBinding(c, 0, t)]
          /\ warned' = IF state[Control("encoder", c)].type = "cc"
                       THEN warned + persistWarnings(storageOk) ELSE warned
    /\ op' = "setEncoderTarget"
    /\ nOps' = nOps + 1
    /\ UNCHANGED <<trackerVars, ioVars, appVars, storageOk, storedKind, nOvr>>

NextFaulty == FailingSetBinding \/ FailingResetMapping \/ FailingSetEncoderTarget

SpecFaulty == InitFaulty /\ [][NextFaulty]_vars

\* C19: when every write of the persisted record fails, the failure is
\* reported once in total over any sequence of mutations.
C19_FailureReportedOnce ==
    (~storageOk /\ nOps >= 1) => warned <= 1

(***************************************************************************)
(* paramMapping.ts: normalizeUserInput over a grid of inputs               *)
(***************************************************************************)
MaxInputs == 1          \* normalizeUserInput calls explored in SpecQuantize

\* Inputs in thousandths, from below 0 to above 1 (the encoder branch of the
\* router passes prev + 0.01 * delta, which can leave [0, 1]).
UserInputs == {20 * i - 40 : i \in 0..54}

\* Parameter states with one parameter on any of its stops.
QuantizeParams ==
    UNION { { [k \in ParamKeySet |-> IF k = key THEN semanticStops(key)[i] ELSE 0] :
                i \in DOMAIN semanticStops(key) } :
            key \in ParamKeySet \ {"spread"} }

InitQuantize ==
    /\ InitTrackerVars
    /\ InitIO
    /\ InitStoreVars
    /\ InitEnv
    /\ learnTarget = NoControl
    /\ activePadIndex = 0
    /\ padColors = buildDefaultPadColors
    /\ params \in QuantizeParams
    /\ bucket = [k \in ParamKeySet |-> [value |-> 0, raf |-> FALSE]]
    /\ suppressOutgoing = FALSE
    /\ calls = {}
    /\ op = "init"
    /\ arg = NoArg
    /\ nOps = 0
    /\ nOvr = 0

\* normalizeUserInput(key, value, previous) with the stored value as
\* previous; the result is stored.
NormalizeUserInput ==
    /\ nOps < MaxInputs
    /\ \E key \in ParamKeySet, v \in UserInputs :
          LET value == v * (ONE \div 1000)
              result == normalizeUserInput(key, value, params[key])
          IN  /\ req' = [fn |-> "normalizeUserInput", key |-> key, value |-> value,
                         previous |-> params[key], result |-> result]
              /\ params' = setParam(params, key, result)
    /\ op' = "normalizeUserInput"
    /\ nOps' = nOps + 1
    /\ UNCHANGED <<trackerVars, storeVars, rawIn, delivered, sent, learnTarget,
                   activePadIndex, padColors, bucket, suppressOutgoing, calls,
                   envVars, arg, nOvr>>

NextQuantize == NormalizeUserInput

SpecQuantize == InitQuantize /\ [][NextQuantize]_vars

\* C26: for a quantized parameter, normalizeUserInput returns the current
\* stop exactly when the input clamped to [0, 1] lies within
\* [lower - h, upper + h], lower and upper being the midpoints to the
\* neighbouring stops (0 and 1 at the ends) and h the parameter's hysteresis;
\* with stops 0, 1/3, 2/3, 1, h = 0.06 and current value 1/3, input 0.40
\* returns 1/3 and input 0.58 returns 2/3.
C26_QuantizeWithHysteresis ==
    (op = "normalizeUserInput" /\ req.key # "spread") =>
        LET stops == semanticStops(req.key)
            h == IF req.key = "octaveDoubling" THEN (5 * ONE) \div 100
                 ELSE (6 * ONE) \div 100
            clamped == IF req.value < 0 THEN 0
                       ELSE IF req.value > ONE THEN ONE ELSE req.value
            i == CHOOSE j \in DOMAIN stops : stops[j] = req.previous
            lower == IF i = 1 THEN 0 ELSE (stops[i - 1] + stops[i]) \div 2
            upper == IF i = Len(stops) THEN ONE ELSE (stops[i] + stops[i + 1]) \div 2
        IN  /\ req.previous \in {stops[j] : j \in DOMAIN stops}
            /\ (req.result = req.previous) <=>
                  (clamped >= lower - h /\ clamped <= upper + h)
            /\ req.result \in {stops[j] : j \in DOMAIN stops}
            /\ (req.key = "complexity" /\ req.previous = ONE \div 3) =>
                  /\ req.value = 400 * (ONE \div 1000) => req.result = ONE \div 3
                  /\ req.value = 580 * (ONE \div 1000) => req.result = (2 * ONE) \div 3

\* Complexity was at 1/3 and the input 0.58 moved it to 2/3.
C26_Witness ==
    /\ op = "normalizeUserInput"
    /\ req.key = "complexity"
    /\ req.previous = ONE \div 3
    /\ req.value = 580 * (ONE \div 1000)
    /\ params["complexity"] = (2 * ONE) \div 3

(***************************************************************************)
(* useWebMIDI: the feedback frames (sendPadColor, sendOled)                *)
(***************************************************************************)
MaxText == 3            \* length of the free part of a text line

\* Colour components and pad ids a caller can pass.
ColourInputs == {-5, 0, 64, 127, 130}
PadInputs == {21, 28}

\* Characters: tab, space, 'A', '~', DEL and e-acute.
Alphabet == {9, 32, 65, 126, 127, 233}
IsPrintable(ch) == ch >= 32 /\ ch <= 126

ShortTexts == UNION { [1..n -> Alphabet] : n \in 0..MaxText }

\* The short texts, alone and after 13 or 14 letters (lengths up to
\* 14 + MaxText, on both sides of the 16-character limit).
Letters(n) == [i \in 1..n |-> 66]
Texts == { Letters(k) \o t : k \in {0, 13, 14}, t \in ShortTexts }
SecondLines == { <<>>, <<77, 105, 110, 105>>, Letters(15) \o <<9, 65, 65>> }

InitFeedback ==
    /\ InitTrackerVars
    /\ InitStoreVars
    /\ InitAppVars
    /\ rawIn = <<>>
    /\ delivered = NullEvent
    /\ req \in { [fn |-> "sendPadColor", pad |-> pad, r |-> r, g |-> g, b |-> b] :
                    pad \in PadInputs, r \in ColourInputs, g \in ColourInputs,
                    b \in ColourInputs }
               \cup { [fn |-> "sendOled", line1 |-> l1, line2 |-> l2] :
                       l1 \in Texts, l2 \in SecondLines }
    /\ sent = <<>>
    /\ InitEnv
    /\ op = "init"
    /\ arg = NoArg
    /\ nOps = 0
    /\ nOvr = 0

\* sendPadColor(payload) with one output attached
SendPadColor ==
    /\ op = "init"
    /\ req.fn = "sendPadColor"
    /\ sent' = << padSysex(req.pad, req.r, req.g, req.b) >>
    /\ op' = "sendPadColor"
    /\ UNCHANGED <<trackerVars, storeVars, appVars, rawIn, delivered, req, envVars,
                   arg, nOps, nOvr>>

\* sendOled(payload) with one output attached
SendOled ==
    /\ op = "init"
    /\ req.fn = "sendOled"
    /\ sent' = << oledSysex(req.line1, req.line2) >>
    /\ op' = "sendOled"
    /\ UNCHANGED <<trackerVars, storeVars, appVars, rawIn, delivered, req, envVars,
                   arg, nOps, nOvr>>

NextFeedback == SendPadColor \/ SendOled

SpecFeedback == InitFeedback /\ [][NextFeedback]_vars

\* C28: the pad-colour frame sent by sendPadColor for pad id pad and integers
\* r, g, b is the 14 bytes F0 00 20 6B 7F 42 02 02 16 pad r' g' b' F7 with
\* r', g', b' the inputs clamped to [0, 127].
C28_PadColourClamped ==
    op = "sendPadColor" =>
        sent = << Frame("sendPadColor",
                        <<240, 0, 32, 107, 127, 66, 2, 2, 22, req.pad,
                          Clamp(0, 127, req.r), Clamp(0, 127, req.g),
                          Clamp(0, 127, req.b), 247>>) >>

\* The printable-ASCII characters of a text, in order.
RECURSIVE StripNonPrintable(_)
StripNonPrintable(text) ==
    IF text = <<>> THEN <<>>
    ELSE (IF IsPrintable(Head(text)) THEN <<Head(text)>> ELSE <<>>)
         \o StripNonPrintable(Tail(text))

\* A line as the display is to receive it: non-printable characters
\* removed, truncated to 16, right-padded with spaces.
ExpectedLine(text) ==
    LET kept == StripNonPrintable(text)
        cut == SubSeq(kept, 1, IF Len(kept) < 16 THEN Len(kept) ELSE 16)
    IN  cut \o Spaces(16 - Len(cut))

\* C29: the OLED frame sent by sendOled is the header
\* F0 00 20 6B 7F 42 04 02 60 01, 16 bytes for line 1, 16 bytes for line 2
\* and F7; each line's bytes are its printable-ASCII characters with every
\* other character removed, truncated to 16 and right-padded with 0x20.
C29_OledFrame ==
    op = "sendOled" =>
        sent = << Frame("sendOled",
                        <<240, 0, 32, 107, 127, 66, 4, 2, 96, 1>>
                        \o ExpectedLine(req.line1) \o ExpectedLine(req.line2)
                        \o <<247>>) >>

\* Text without its trailing spaces.
RECURSIVE TrimTrailingSpaces(_)
TrimTrailingSpaces(text) ==
    IF text # <<>> /\ text[Len(text)] = 32
    THEN TrimTrailingSpaces(SubSeq(text, 1, Len(text) - 1))
    ELSE text

\* The 16 payload bytes of line 1 of an OLED frame, decoded and trimmed.
DecodedLine1(frame) == TrimTrailingSpaces(SubSeq(frame.bytes, 11, 26))

PrintableUpTo16(text) ==
    Len(text) <= 16 /\ \A i \in DOMAIN text : IsPrintable(text[i])

\* C30 as stated: for every string of at most 16 printable-ASCII characters
\* (space included), decoding the 16 payload bytes of its line and trimming
\* trailing spaces yields the string.
C30_RoundTripAsStated ==
    (op = "sendOled" /\ PrintableUpTo16(req.line1)) =>
        DecodedLine1(sent[1]) = req.line1

\* C30 amended: for every string of at most 16 printable-ASCII characters,
\* decoding the 16 payload bytes of its line and trimming trailing spaces
\* yields the string without its trailing spaces; this is the string itself
\* when it does not end in a space.
C30_RoundTrip ==
    (op = "sendOled" /\ PrintableUpTo16(req.line1)) =>
        /\ DecodedLine1(sent[1]) = TrimTrailingSpaces(req.line1)
        /\ (req.line1 = <<>> \/ req.line1[Len(req.line1)] # 32) =>
              DecodedLine1(sent[1]) = req.line1

\* A 16-character printable line with a space inside and none at the end
\* was sent and decodes to itself.
C30_Witness ==
    /\ op = "sendOled"
    /\ PrintableUpTo16(req.line1)
    /\ Len(req.line1) = 16
    /\ req.line1[15] = 32
    /\ req.line1[16] = 126
    /\ DecodedLine1(sent[1]) = req.line1


(***************************************************************************)
(* Re-learning an encoder onto a controller it was on before.  The encoder *)
(* row 74 was learned onto controller 75, turned, and learned back onto    *)
(* controller 74: the tracker holds what it sampled on 75.                 *)
(***************************************************************************)
Relearned == 75

RelearnPreludes ==
    { <<1>>, <<68, 2, 100>>, <<1, 1, 127, 1, 127, 1>>, <<63, 65, 64, 66, 63, 64>> }

RelearnFrames == { <<176, Relearned, 1>>, <<176, Relearned, 65>>, <<177, Relearned, 1>> }

InitRelearn ==
    /\ \E pre \in RelearnPreludes :
          LET t == processAll(FreshTracker, Relearned, pre)
          IN  /\ states = t.states
              /\ overrides = t.overrides
              /\ savedOverrides = t.saved
              /\ ret = t.ret
              /\ seen = t.seen
              /\ nSeen = t.nSeen
              /\ pinned = t.pinned
    /\ InitIO
    /\ \E target \in {"tension", "spread"} :
          stored = [EmptyRecord EXCEPT ![Control("encoder", 74)] = CcBinding(74, 0, target)]
    /\ state = loadMapping(stored)
    /\ notified = 0
    /\ learnTarget = NoControl
    /\ activePadIndex = 0
    /\ padColors = buildDefaultPadColors
    /\ params \in InitialParams
    /\ bucket = [k \in ParamKeySet |-> [value |-> 0, raf |-> FALSE]]
    /\ suppressOutgoing = FALSE
    /\ calls = {}
    /\ InitEnv
    /\ op = "init"
    /\ arg = NoArg
    /\ nOps = 0
    /\ nOvr = 0

\* A control-change of the knob on controller 75 reaches handleMidiEvent.
RelearnMidiInput ==
    /\ nOps < MaxAppOps
    /\ \E data \in RelearnFrames :
          /\ rawIn' = data
          /\ delivered' = handleMessage(data)
          /\ handleMidiEvent(handleMessage(data))
    /\ op' = "midi"
    /\ nOps' = nOps + 1
    /\ UNCHANGED <<req, envVars, arg, nOvr>>

NextRelearn ==
    \/ StartLearn
    \/ RelearnMidiInput

SpecRelearn == InitRelearn /\ [][NextRelearn]_vars

\* C32: when a learn armed for an encoder captures a control-change, the
\* tracker state of the captured controller number is reset by that event:
\* no samples, no mode, no pinned override.
C32_RelearnResetsInferrer ==
    [][ (op' = "midi" /\ learnTarget.kind = "encoder" /\ delivered'.type = "cc")
        => LET n == delivered'.num
           IN  /\ state'[learnTarget].type = "cc"
               /\ state'[learnTarget].num = n
               /\ states'[n].samples = <<>>
               /\ states'[n].mode = NoMode
               /\ overrides'[n] = NoMode ]_vars


(***************************************************************************)
(* Encoder turns and the deferred parameter update.  An encoder on         *)
(* controller 74 drives spread; req records the value spread had at the    *)
(* start, the sum of the deltas the tracker has returned since, and        *)
(* whether every partial sum kept start + 0.01 * sum inside [0, 1].        *)
(***************************************************************************)
CoalesceFrames == { <<176, 74, 1>>, <<176, 74, 3>>, <<176, 74, 127>> }

InitCoalesce ==
    /\ InitTrackerVars
    /\ rawIn = <<>>
    /\ delivered = NullEvent
    /\ sent = <<>>
    /\ stored = [EmptyRecord EXCEPT ![Control("encoder", 74)] = CcBinding(74, 0, "spread")]
    /\ state = loadMapping(stored)
    /\ notified = 0
    /\ learnTarget = NoControl
    /\ activePadIndex = 0
    /\ padColors = buildDefaultPadColors
    /\ params \in InitialParams
    /\ req = [initial |-> params["spread"], sum |-> 0, inRange |-> TRUE]
    /\ bucket = [k \in ParamKeySet |-> [value |-> 0, raf |-> FALSE]]
    /\ suppressOutgoing = FALSE
    /\ calls = {}
    /\ InitEnv
    /\ op = "init"
    /\ arg = NoArg
    /\ nOps = 0
    /\ nOvr = 0

\* A control-change of the encoder reaches handleMidiEvent.
EncoderTurn ==
    /\ nOps < MaxAppOps
    /\ \E data \in CoalesceFrames :
          /\ rawIn' = data
          /\ delivered' = handleMessage(data)
          /\ handleMidiEvent(handleMessage(data))
    /\ req' = LET sum == req.sum + ret'.delta
                  total == req.initial + sum * (ONE \div 100)
              IN  [initial |-> req.initial, sum |-> sum,
                   inRange |-> req.inRange /\ total >= 0 /\ total <= ONE]
    /\ op' = "midi"
    /\ nOps' = nOps + 1
    /\ UNCHANGED <<envVars, arg, nOvr>>

NextCoalesce ==
    \/ EncoderTurn
    \/ AnimationFrame

SpecCoalesce == InitCoalesce /\ [][NextCoalesce]_vars

\* C35: once every scheduled update has run, spread is its starting value
\* plus 0.01 times the sum of the deltas of the encoder events received,
\* provided every partial sum stayed inside [0, 1].
C35_NoDeltaLost ==
    ((\A k \in ParamKeySet : ~bucket[k].raf) /\ req.inRange)
        => params["spread"] = req.initial + req.sum * (ONE \div 100)


(***************************************************************************)
(* A stepping encoder on a quantized parameter.  The encoder on controller *)
(* 74 is pinned to one-step mode and its target is a quantized parameter   *)
(* below its top stop; each step is a control-change that one-step mode    *)
(* reads as +1, and arrives when no deferred update is pending.  req holds  *)
(* the parameter values at the start.                                      *)
(***************************************************************************)
StepFrames == { <<176, 74, 1>>, <<176, 74, 64>> }

BelowTop(key) ==
    { semanticStops(key)[i] : i \in 1..(Len(semanticStops(key)) - 1) }

StepParams ==
    { [k \in ParamKeySet |->
          CASE k = "complexity" -> a
            [] k = "octaveDoubling" -> b
            [] k = "tension" -> c
            [] OTHER -> 0] :
      a \in BelowTop("complexity"), b \in BelowTop("octaveDoubling"),
      c \in BelowTop("tension") }

InitStep ==
    /\ InitEnv
    /\ LET t == setOverride(FreshTracker, 74, "one-step")
       IN  /\ states = t.states
           /\ overrides = t.overrides
           /\ savedOverrides = t.saved
           /\ ret = t.ret
           /\ seen = t.seen
           /\ nSeen = t.nSeen
           /\ pinned = t.pinned
    /\ rawIn = <<>>
    /\ delivered = NullEvent
    /\ sent = <<>>
    /\ \E target \in ParamKeySet \ {"spread"} :
          stored = [EmptyRecord EXCEPT ![Control("encoder", 74)] = CcBinding(74, 0, target)]
    /\ state = loadMapping(stored)
    /\ notified = 0
    /\ learnTarget = NoControl
    /\ activePadIndex = 0
    /\ padColors = buildDefaultPadColors
    /\ params \in StepParams
    /\ req = params
    /\ bucket = [k \in ParamKeySet |-> [value |-> 0, raf |-> FALSE]]
    /\ suppressOutgoing = FALSE
    /\ calls = {}
    /\ op = "init"
    /\ arg = NoArg
    /\ nOps = 0
    /\ nOvr = 0

\* One step of the knob, after the update of the step before has run.
EncoderStep ==
    /\ \A k \in ParamKeySet : ~bucket[k].raf
    /\ \E data \in StepFrames :
          /\ rawIn' = data
          /\ delivered' = handleMessage(data)
          /\ handleMidiEvent(handleMessage(data))
    /\ op' = "midi"
    /\ UNCHANGED <<req, envVars, arg, nOps, nOvr>>

NextStep ==
    \/ EncoderStep
    \/ AnimationFrame

\* The knob keeps being turned, and the browser runs every animation frame
\* callback that was requested.
SpecStep ==
    InitStep /\ [][NextStep]_vars /\ WF_vars(EncoderStep) /\ WF_vars(AnimationFrame)

SteppedTarget == state[Control("encoder", 74)].target

\* C36: with +1 steps arriving forever, each after the deferred update of the
\* one before, the encoder's quantized target eventually holds a stop above
\* the one it started from.
C36_StepProgress == <>(params[SteppedTarget] > req[SteppedTarget])


(***************************************************************************)
(* The range of the delta.  The controller is in any mode, pinned by an    *)
(* override or inferred from its first event, and its previous raw value   *)
(* is any 7-bit value or none; one more event of any 7-bit value is        *)
(* processed.                                                              *)
(***************************************************************************)
InitRange ==
    /\ InitEnv
    /\ \E mode \in Modes \cup {NoMode}, previous \in Raw7 \cup {NoValue} :
          LET t0 == IF mode = NoMode THEN FreshTracker
                    ELSE setOverride(FreshTracker, Primary, mode)
              t == IF previous = NoValue THEN t0
                   ELSE trackerProcess(t0, Primary, previous)
          IN  /\ states = t.states
              /\ overrides = t.overrides
              /\ savedOverrides = t.saved
              /\ ret = t.ret
              /\ seen = t.seen
              /\ nSeen = t.nSeen
              /\ pinned = t.pinned
    /\ InitStoreVars
    /\ InitAppVars
    /\ InitIO
    /\ op = "init"
    /\ arg = NoArg
    /\ nOps = 0
    /\ nOvr = 0

\* process(Primary, v) for any 7-bit v, once
ProcessOnce ==
    /\ op = "init"
    /\ \E v \in Raw7 : SetTracker(trackerProcess(Tracker, Primary, v))
    /\ op' = "process"
    /\ UNCHANGED <<ioVars, storeVars, appVars, envVars, arg, nOps, nOvr>>

NextRange == ProcessOnce

SpecRange == InitRange /\ [][NextRange]_vars

\* C38: whatever the mode, the raw value and the previous raw value, the
\* delta process returns lies in -64..64.
C38_DeltaRange ==
    op = "process" => (ret.delta >= -64 /\ ret.delta <= 64)

\* Both ends are reached: absolute mode from 0 to 64 gives +64, from 64 to 0
\* gives -64.
C38_Witness ==
    /\ op = "process"
    /\ ret.mode = "absolute"
    /\ overrides[Primary] = "absolute"
    /\ states[Primary].lastValue = 64
    /\ ret.raw = 64
    /\ ret.delta = 64


(***************************************************************************)
(* Dispatch of a decoded event to the subscribers (useWebMIDI             *)
(* handleMessage and onMessage).  req.callbacks is callbacksRef.current    *)
(* in insertion order; each dispatch chooses the callbacks that throw on   *)
(* this event.  calls holds the callbacks that were invoked, arg what      *)
(* became of the exceptions, warned the console.error calls made so far.   *)
(***************************************************************************)
Subscribers == {"router", "monitor", "logger"}

DispatchFrames == { <<176, 74, 1>>, <<152, 36, 100>>, <<248>> }

SeqRange(q) == { q[i] : i \in DOMAIN q }

\* callbacksRef.current.add(callback): a Set keeps one entry per callback
addCallback(q, cb) == IF cb \in SeqRange(q) THEN q ELSE Append(q, cb)

\* callbacksRef.current.delete(callback)
deleteCallback(q, cb) == SelectSeq(q, LAMBDA x : x # cb)

NoOutcome == [invoked |-> {}, threw |-> {}, logged |-> 0, propagated |-> FALSE]

\* try { cb(normalized, event) } catch (error) { console.error(...) }
invoke_NoCatch(cb, throwing, acc) ==
    [acc EXCEPT !.invoked = @ \cup {cb},
                !.threw = IF cb \in throwing THEN @ \cup {cb} ELSE @,
                !.propagated = cb \in throwing]
invoke(cb, throwing, acc) ==
    [acc EXCEPT !.invoked = @ \cup {cb},
                !.threw = IF cb \in throwing THEN @ \cup {cb} ELSE @,
                !.logged = IF cb \in throwing THEN @ + 1 ELSE @]

\* callbacksRef.current.forEach: an exception that leaves a callback ends
\* the iteration
RECURSIVE forEachCallback(_, _, _)
forEachCallback(q, throwing, acc) ==
    IF q = <<>> \/ acc.propagated THEN acc
    ELSE forEachCallback(Tail(q), throwing, invoke(Head(q), throwing, acc))

InitDispatch ==
    /\ InitTrackerVars
    /\ InitStoreVars
    /\ InitAppVars
    /\ InitEnv
    /\ rawIn = <<>>
    /\ delivered = NullEvent
    /\ sent = <<>>
    /\ req = [callbacks |-> <<>>]
    /\ op = "init"
    /\ arg = NoOutcome
    /\ nOps = 0
    /\ nOvr = 0

\* onMessage(callback)
OnMessage ==
    /\ \E cb \in Subscribers :
          /\ cb \notin SeqRange(req.callbacks)
          /\ req' = [callbacks |-> addCallback(req.callbacks, cb)]
    /\ op' = "onMessage"
    /\ UNCHANGED <<trackerVars, storeVars, appVars, envVars, rawIn, delivered, sent,
                   arg, nOps, nOvr>>

\* The function onMessage returned
Unsubscribe ==
    /\ \E cb \in SeqRange(req.callbacks) :
          req' = [callbacks |-> deleteCallback(req.callbacks, cb)]
    /\ op' = "unsubscribe"
    /\ UNCHANGED <<trackerVars, storeVars, appVars, envVars, rawIn, delivered, sent,
                   arg, nOps, nOvr>>

\* A midimessage event reaches handleMessage.
Dispatch ==
    /\ nOps < MaxAppOps
    /\ \E data \in DispatchFrames, throwing \in SUBSET Subscribers :
          LET normalized == normalizeMessage(data)
              outcome == IF normalized = NullEvent THEN NoOutcome
                         ELSE forEachCallback(req.callbacks, throwing, NoOutcome)
          IN  /\ rawIn' = data
              /\ delivered' = normalized
              /\ arg' = outcome
              /\ calls' = outcome.invoked
              /\ warned' = warned + outcome.logged
    /\ op' = "dispatch"
    /\ nOps' = nOps + 1
    /\ UNCHANGED <<trackerVars, storeVars, learnTarget, activePadIndex, padColors, params,
                   bucket, suppressOutgoing, storageOk, storedKind, req, sent, nOvr>>

NextDispatch ==
    \/ OnMessage
    \/ Unsubscribe
    \/ Dispatch

SpecDispatch == InitDispatch /\ [][NextDispatch]_vars

\* C39: each decoded event is handed to every subscriber, whichever of them
\* throw on it, and no exception leaves handleMessage; this holds for every
\* event, those after an event on which a subscriber threw included.
C39_ThrowingSubscriberIsolated ==
    (op = "dispatch" /\ delivered # NullEvent)
        => /\ calls = SeqRange(req.callbacks)
           /\ ~arg.propagated
           /\ arg.logged = Cardinality(arg.threw)

\* The first of three subscribers threw on this event and the other two
\* received it; a subscriber had thrown on an earlier event as well.
C39_Witness ==
    /\ op = "dispatch"
    /\ delivered.type = "cc"
    /\ Len(req.callbacks) = 3
    /\ arg.threw = {req.callbacks[1]}
    /\ calls = Subscribers
    /\ warned > 1


(***************************************************************************)
(* Round trips between a parameter value and its controller value.  req    *)
(* holds the arguments: a quantized key with one of its stops and a stop   *)
(* as previous value, or spread with a 7-bit controller value and a        *)
(* previous value; the action fills in the value that travelled and the    *)
(* value that came back.                                                   *)
(***************************************************************************)
SpreadPrevious == {0, ONE \div 2, ONE}

InitRoundTrip ==
    /\ InitTrackerVars
    /\ InitStoreVars
    /\ InitAppVars
    /\ InitEnv
    /\ rawIn = <<>>
    /\ delivered = NullEvent
    /\ sent = <<>>
    /\ \/ \E key \in ParamKeySet \ {"spread"} :
             \E s \in StopsOf(key), previous \in StopsOf(key) :
                req = [key |-> key, value |-> s, previous |-> previous,
                       wire |-> -1, result |-> -1]
       \/ \E cc \in Raw7, previous \in SpreadPrevious :
             req = [key |-> "spread", value |-> cc, previous |-> previous,
                    wire |-> -1, result |-> -1]
    /\ op = "init"
    /\ arg = NoArg
    /\ nOps = 0
    /\ nOvr = 0

\* applyIncomingValue(key, paramToCC(key, s), previous) for a quantized key
StopRoundTrip ==
    /\ op = "init"
    /\ req.key # "spread"
    /\ LET cc == paramToCC(req.key, req.value)
       IN  req' = [req EXCEPT !.wire = cc,
                              !.result = applyIncomingValue(req.key, cc, req.previous)]
    /\ op' = "stopRoundTrip"
    /\ UNCHANGED <<trackerVars, storeVars, appVars, envVars, rawIn, delivered, sent,
                   arg, nOps, nOvr>>

\* paramToCC('spread', applyIncomingValue('spread', cc, previous))
SpreadRoundTrip ==
    /\ op = "init"
    /\ req.key = "spread"
    /\ LET normalized == applyIncomingValue("spread", req.value, req.previous)
       IN  req' = [req EXCEPT !.wire = normalized,
                              !.result = paramToCC("spread", normalized)]
    /\ op' = "spreadRoundTrip"
    /\ UNCHANGED <<trackerVars, storeVars, appVars, envVars, rawIn, delivered, sent,
                   arg, nOps, nOvr>>

NextRoundTrip ==
    \/ StopRoundTrip
    \/ SpreadRoundTrip

SpecRoundTrip == InitRoundTrip /\ [][NextRoundTrip]_vars

\* C40: a stop of a quantized parameter sent as a controller value and read
\* back, from any stop as previous value, is that stop; a controller value
\* read as spread and sent back is that controller value.
C40_WireRoundTrip ==
    op \in {"stopRoundTrip", "spreadRoundTrip"} => req.result = req.value

\* The second stop of complexity travels as controller value 42 and comes
\* back although the previous value was the first stop.
C40_Witness ==
    /\ op = "stopRoundTrip"
    /\ req.key = "complexity"
    /\ req.value = ONE \div 3
    /\ req.previous = 0
    /\ req.wire = 42
    /\ req.result = ONE \div 3

====
